---------------------------- MODULE Spec2Model ----------------------------
(***************************************************************************)
(* Model of the browser-side controllers of trader_monitor.                *)
(*                                                                         *)
(* SettingsManager (settings.js, src/unnamed/part_000): the configuration  *)
(* snapshot currentConfig, the form (the DOM inputs, the working copy),    *)
(* the unsavedChanges flag, and the asynchronous handlers that load, save, *)
(* reset, import and export the configuration.                             *)
(*                                                                         *)
(* Numbers.  Every number of a configuration or of a form input is held    *)
(* in hundredths (14 is 1400, 0.2 is 20), so that parseInt (truncation)    *)
(* and parseFloat differ.  The arithmetic validateConfig does on the       *)
(* indicator weights is IEEE-754 double arithmetic; it is modelled         *)
(* exactly (see "Doubles" below), not as arithmetic on hundredths.         *)
(***************************************************************************)
EXTENDS Integers, Sequences, FiniteSets, Bags, TLC

VARIABLES
    currentConfig,   \* this.currentConfig: the authoritative snapshot
    form,            \* the DOM inputs: input id -> value (the working copy)
    unsavedChanges,  \* this.unsavedChanges: the dirty flag
    inflight,        \* fetch requests sent and not yet settled, with their continuations
    nextId,          \* number of fetch requests issued so far (the next request's id)
    remote,          \* the remote system's stored configuration
    toasts,          \* the notifications the last step showed (showToast), in order
    lastOp,          \* the handler (or continuation of a handler) that ran last
    edits,           \* number of user edits so far
    exported,        \* the artifact the last export downloaded
    statusDisplay,   \* the system status indicator (displaySystemStatus)
    reading,         \* the picked files whose text() handleFileImport awaits
    dragging,        \* the slider whose thumb the user holds (input sent, change to come)
    candidate,       \* validation harness: the configuration handed to validateConfig
    validation,      \* validation harness: what validateConfig returned
    appliedLoad,     \* history: id of the load request whose response was applied last
    original,        \* history: the configuration a round trip started from
    pendingAction,   \* this.pendingAction (SettingsManager)
    confirmCallback, \* this.confirmCallback (SettingsManager)
    modal,           \* the confirmation dialog: shown or not, and its message
    confirmed,       \* history: the action of each dialog the confirm button was pressed on
    isUpdating,      \* this.isUpdating (TradingDashboard)
    currentCrypto,   \* this.currentCrypto (TradingDashboard)
    polls,           \* the dashboard's fetches sent and not yet settled (a bag)
    timers,          \* the dashboard's setTimeout callbacks not yet run (a bag)
    tbody,           \* the signals table body (#signals-table-body)
    panels,          \* the price, indicators and analysis containers of each crypto
    updateInterval,        \* this.updateInterval: the handle of the 10 s interval
    monitorCheckInterval,  \* this.monitorCheckInterval: the handle of the 30 s interval
    intervals,             \* the window's setInterval timers not cleared: handle and callback
    duplicateAlertShown,   \* this.duplicateAlertShown (TradingDashboard)
    duplicateWarnings,     \* the console: how many duplicate-signal warnings it holds
    signals,         \* the array object handed to displaySignalsTable
    renders          \* history: what each displaySignalsTable call left in tbody

\* the state of the settings page's system tab
ActionVars == <<pendingAction, confirmCallback, modal, confirmed>>

\* the state of the dashboard page
Intervals == <<updateInterval, monitorCheckInterval, intervals>>

DuplicateAlert == <<duplicateAlertShown, duplicateWarnings>>

DashboardVars ==
    <<isUpdating, currentCrypto, polls, timers, tbody, panels, Intervals,
      DuplicateAlert>>

\* the signals-table harness
SignalsVars == <<signals, renders>>

vars == <<currentConfig, form, unsavedChanges, inflight, nextId, remote,
          toasts, lastOp, edits, exported, statusDisplay, reading, dragging,
          candidate, validation, appliedLoad, original,
          ActionVars, DashboardVars, SignalsVars>>

---------------------------------------------------------------------------
(***************************************************************************)
(* Doubles.                                                                *)
(*                                                                         *)
(* A double near a whole number of hundredths is the pair [k, n] that      *)
(* stands for   k/100 + n * U,   U = 1 / (25 * 2^59),                      *)
(* that is (k * 2^57 + n) * U.  Every double in [2^(m-7), 2^(m-6)) is a    *)
(* multiple of 2^(m-59), i.e. (k * 2^57 + n) is a multiple of 25 * 2^m.    *)
(* Rounding to nearest, ties to even, is therefore exact integer           *)
(* arithmetic modulo 25 * 2^m, and n stays below 25 * 2^10.                *)
(***************************************************************************)

RECURSIVE Pow2From(_)
Pow2From(m) == IF m = 0 THEN 1 ELSE 2 * Pow2From(m - 1)

\* 2^m, tabulated for the exponents the model meets
Pow2Table == [m \in 0..20 |-> Pow2From(m)]

Pow2(m) == IF m \in DOMAIN Pow2Table THEN Pow2Table[m] ELSE Pow2From(m)

\* 2^j mod 25 (2 has order 20 modulo 25)
Pow2Mod25(j) == Pow2(j % 20) % 25

\* (k * 2^57) mod (25 * 2^m), for 0 <= m <= 57
HundredthsMod(k, m) == Pow2(m) * ((k * Pow2Mod25(57 - m)) % 25)

\* The binade of a positive value [k, n], k >= 1: the m with
\* 2^(m-7) <= value < 2^(m-6).  k/100 >= 2^(m-7) iff 25 * 2^m <= 32 * k;
\* at equality the value is below the power of two when n < 0.
RECURSIVE BinadeFrom(_, _, _)
BinadeFrom(k, n, m) ==
    IF 25 * Pow2(m + 1) < 32 * k \/ (25 * Pow2(m + 1) = 32 * k /\ n >= 0)
    THEN BinadeFrom(k, n, m + 1)
    ELSE m

Binade(k, n) == BinadeFrom(k, n, 0)

\* The double nearest to the exact value [k, n], k >= 1 (round to nearest,
\* ties to the even significand).
RoundDouble(k, n) ==
    LET m    == Binade(k, n)
        M    == 25 * Pow2(m)
        r    == (HundredthsMod(k, m) + n) % M
        down == n - r
        up   == n - r + M
        downEven == (HundredthsMod(k, m + 1) + down) % (2 * M) = 0
    IN  IF r = 0 THEN [k |-> k, n |-> n]
        ELSE IF 2 * r < M THEN [k |-> k, n |-> down]
        ELSE IF 2 * r > M THEN [k |-> k, n |-> up]
        ELSE IF downEven THEN [k |-> k, n |-> down]
        ELSE [k |-> k, n |-> up]

\* The double nearest to h hundredths, h >= 0
NearestDouble(h) == IF h = 0 THEN [k |-> 0, n |-> 0] ELSE RoundDouble(h, 0)

\* NearestDouble, tabulated for the texts a slider of the form can hold
NearestTable == [h \in 0..500 |-> NearestDouble(h)]

\* parseFloat of the decimal text of h hundredths ("0.2" for 20), h >= 0: the
\* nearest double.  JSON.parse reads a number literal the same way.
parseFloat(h) == IF h \in DOMAIN NearestTable THEN NearestTable[h] ELSE NearestDouble(h)

\* x + y for doubles x, y >= 0
DoubleAdd(x, y) ==
    IF x.k + y.k = 0 THEN [k |-> 0, n |-> 0]
    ELSE RoundDouble(x.k + y.k, x.n + y.n)

\* Math.abs(x - 1.0).  1.0 is [100, 0].  When the hundredths cancel the
\* difference of two doubles in [0.5, 2] is exact (Sterbenz).
AbsMinusOne(x) ==
    LET k == x.k - 100
        n == x.n
    IN  IF k = 0 THEN [k |-> 0, n |-> IF n < 0 THEN -n ELSE n]
        ELSE IF k > 0 THEN RoundDouble(k, n)
        ELSE RoundDouble(-k, -n)

\* x > y for doubles (|n| is far below one hundredth, 2^57 units)
DoubleGreater(x, y) == x.k > y.k \/ (x.k = y.k /\ x.n > y.n)

\* Math.round(x * 100) for a double x = [k, n]: the exact product is
\* k + 4n/2^59, within 2^-40 of the integer k; rounding the product to a
\* double and then to the nearest integer both keep k.
RoundPercent(x) == x.k


---------------------------------------------------------------------------
(***************************************************************************)
(* Configurations and the form.                                            *)
(*                                                                         *)
(* A form input holds text: the decimal text of a number, written as its   *)
(* hundredths ("14" is 1400, "0.2" is 20), or the checked state of a       *)
(* checkbox.  A configuration holds numbers: a whole number is held as     *)
(* its hundredths, a number read by parseFloat or from JSON text as the    *)
(* double [k, n] nearest to it.                                            *)
(***************************************************************************)

\* parseInt of the text of h hundredths, h >= 0: the digits before the point
parseInt(h) == (h \div 100) * 100

\* String(x) for a double read from a text of hundredths: the shortest text
\* that reads back as x, which is that text
NumberToText(x) == x.k

\* a JS object with no own properties ({})
EmptyObject == <<>>

\* obj.key is neither undefined nor missing
Has(obj, key) == key \in DOMAIN obj

\* setSliderValue / setCheckbox: the input takes the value unless it is
\* undefined.  toText turns the configuration's value into the input's text.
setSliderValue(f, sliderId, obj, key) ==
    IF Has(obj, key) THEN [f EXCEPT ![sliderId] = obj[key]] ELSE f

setSliderFloat(f, sliderId, obj, key) ==
    IF Has(obj, key) THEN [f EXCEPT ![sliderId] = NumberToText(obj[key])] ELSE f

setCheckbox(f, checkboxId, obj, key) ==
    IF Has(obj, key) THEN [f EXCEPT ![checkboxId] = obj[key]] ELSE f

getSliderValue(f, sliderId) == f[sliderId]

getCheckboxValue(f, checkboxId) == f[checkboxId]

\* the sliders populateForm sets from whole numbers, as <<input id, key>>
TaIntSliders == <<
    <<"rsi-period", "rsi_period">>, <<"rsi-overbought", "rsi_overbought">>,
    <<"rsi-oversold", "rsi_oversold">>, <<"sma-short", "sma_short">>,
    <<"sma-long", "sma_long">>, <<"ema-short", "ema_short">>,
    <<"ema-long", "ema_long">>, <<"min-confidence", "min_confidence">>,
    <<"stoch-overbought", "stoch_overbought">>,
    <<"stoch-oversold", "stoch_oversold">> >>

TaFloatSliders == <<
    <<"volume-ratio", "min_volume_ratio">>, <<"risk-reward", "min_risk_reward">> >>

SignalIntSliders == <<
    <<"max-signals", "max_active_signals">>,
    <<"cooldown-minutes", "signal_cooldown_minutes">> >>

SignalFloatSliders == << <<"stop-loss-atr", "stop_loss_atr_multiplier">> >>

WeightSliders == <<
    <<"weight-rsi", "rsi">>, <<"weight-macd", "macd">>, <<"weight-bb", "bb">>,
    <<"weight-stoch", "stoch">>, <<"weight-sma", "sma_cross">>,
    <<"weight-volume", "volume">> >>

BitcoinSliders == <<
    <<"fetch-interval-btc", "fetch_interval">>,
    <<"max-queue-size", "max_queue_size">> >>

SystemCheckboxes == <<
    <<"auto-start-stream", "auto_start_stream">>,
    <<"require-volume", "require_volume_confirmation">>,
    <<"enable-auto-signals", "enable_auto_signals">>,
    <<"enable-advanced-patterns", "enable_advanced_patterns">>,
    <<"enable-notifications", "enable_notifications">>,
    <<"correlation-analysis", "correlation_analysis">>,
    <<"auto-cleanup", "auto_cleanup">> >>

RECURSIVE SetSliders(_, _, _)
SetSliders(f, obj, pairs) ==
    IF pairs = <<>> THEN f
    ELSE SetSliders(setSliderValue(f, Head(pairs)[1], obj, Head(pairs)[2]),
                    obj, Tail(pairs))

RECURSIVE SetFloatSliders(_, _, _)
SetFloatSliders(f, obj, pairs) ==
    IF pairs = <<>> THEN f
    ELSE SetFloatSliders(setSliderFloat(f, Head(pairs)[1], obj, Head(pairs)[2]),
                         obj, Tail(pairs))

RECURSIVE SetCheckboxes(_, _, _)
SetCheckboxes(f, obj, pairs) ==
    IF pairs = <<>> THEN f
    ELSE SetCheckboxes(setCheckbox(f, Head(pairs)[1], obj, Head(pairs)[2]),
                       obj, Tail(pairs))

\* populateForm(config): the inputs after it ran.  (It ends by clearing
\* unsavedChanges; the handlers that call it do that.)
populateForm(f, config) ==
    LET hasTrading == Has(config, "trading")
        f1 == IF hasTrading /\ Has(config.trading, "ta_params")
              THEN SetFloatSliders(
                       SetSliders(f, config.trading.ta_params, TaIntSliders),
                       config.trading.ta_params, TaFloatSliders)
              ELSE f
        f2 == IF hasTrading /\ Has(config.trading, "signal_config")
              THEN LET signal == config.trading.signal_config
                       g == SetFloatSliders(
                                SetSliders(f1, signal, SignalIntSliders),
                                signal, SignalFloatSliders)
                   IN  IF Has(signal, "target_multipliers")
                       THEN [g EXCEPT
                                !["target-1"] = NumberToText(signal.target_multipliers[1]),
                                !["target-2"] = NumberToText(signal.target_multipliers[2]),
                                !["target-3"] = NumberToText(signal.target_multipliers[3])]
                       ELSE g
              ELSE f1
        f3 == IF hasTrading /\ Has(config.trading, "indicator_weights")
              THEN SetFloatSliders(f2, config.trading.indicator_weights, WeightSliders)
              ELSE f2
        f4 == IF Has(config, "streaming") /\ Has(config.streaming, "bitcoin")
              THEN SetSliders(f3, config.streaming.bitcoin, BitcoinSliders)
              ELSE f3
        f5 == IF Has(config, "system")
              THEN setSliderValue(
                       SetCheckboxes(f4, config.system, SystemCheckboxes),
                       "cleanup-days", config.system, "data_retention_days")
              ELSE f4
    IN  f5

\* collectFormData(): the candidate configuration read from the inputs
collectFormData(f) ==
    [trading |-> [
        ta_params |-> [
            rsi_period       |-> parseInt(getSliderValue(f, "rsi-period")),
            rsi_overbought   |-> parseInt(getSliderValue(f, "rsi-overbought")),
            rsi_oversold     |-> parseInt(getSliderValue(f, "rsi-oversold")),
            sma_short        |-> parseInt(getSliderValue(f, "sma-short")),
            sma_long         |-> parseInt(getSliderValue(f, "sma-long")),
            ema_short        |-> parseInt(getSliderValue(f, "ema-short")),
            ema_long         |-> parseInt(getSliderValue(f, "ema-long")),
            stoch_overbought |-> parseInt(getSliderValue(f, "stoch-overbought")),
            stoch_oversold   |-> parseInt(getSliderValue(f, "stoch-oversold")),
            min_volume_ratio |-> parseFloat(getSliderValue(f, "volume-ratio")),
            min_confidence   |-> parseInt(getSliderValue(f, "min-confidence")),
            min_risk_reward  |-> parseFloat(getSliderValue(f, "risk-reward"))],
        signal_config |-> [
            max_active_signals       |-> parseInt(getSliderValue(f, "max-signals")),
            signal_cooldown_minutes  |-> parseInt(getSliderValue(f, "cooldown-minutes")),
            stop_loss_atr_multiplier |-> parseFloat(getSliderValue(f, "stop-loss-atr")),
            target_multipliers |-> <<
                parseFloat(getSliderValue(f, "target-1")),
                parseFloat(getSliderValue(f, "target-2")),
                parseFloat(getSliderValue(f, "target-3"))>>],
        indicator_weights |-> [
            rsi       |-> parseFloat(getSliderValue(f, "weight-rsi")),
            macd      |-> parseFloat(getSliderValue(f, "weight-macd")),
            bb        |-> parseFloat(getSliderValue(f, "weight-bb")),
            stoch     |-> parseFloat(getSliderValue(f, "weight-stoch")),
            sma_cross |-> parseFloat(getSliderValue(f, "weight-sma")),
            volume    |-> parseFloat(getSliderValue(f, "weight-volume"))]],
     streaming |-> [
        bitcoin |-> [
            fetch_interval |-> parseInt(getSliderValue(f, "fetch-interval-btc")),
            max_queue_size |-> parseInt(getSliderValue(f, "max-queue-size"))]],
     system |-> [
        auto_start_stream           |-> getCheckboxValue(f, "auto-start-stream"),
        require_volume_confirmation |-> getCheckboxValue(f, "require-volume"),
        enable_auto_signals         |-> getCheckboxValue(f, "enable-auto-signals"),
        enable_advanced_patterns    |-> getCheckboxValue(f, "enable-advanced-patterns"),
        enable_notifications        |-> getCheckboxValue(f, "enable-notifications"),
        correlation_analysis        |-> getCheckboxValue(f, "correlation-analysis"),
        auto_cleanup                |-> getCheckboxValue(f, "auto-cleanup"),
        data_retention_days         |-> parseInt(getSliderValue(f, "cleanup-days"))]]

---------------------------------------------------------------------------
(***************************************************************************)
(* validateConfig                                                          *)
(***************************************************************************)

\* Object.values(weights) of a candidate built by collectFormData: the
\* values in the order the keys were written
WeightOrder == <<"rsi", "macd", "bb", "stoch", "sma_cross", "volume">>

\* Object.values(weights).reduce((sum, w) => sum + w, 0)
RECURSIVE ReduceSum(_, _, _)
ReduceSum(weights, keys, sum) ==
    IF keys = <<>> THEN sum
    ELSE ReduceSum(weights, Tail(keys), DoubleAdd(sum, weights[Head(keys)]))

TotalWeight(weights) == ReduceSum(weights, WeightOrder, [k |-> 0, n |-> 0])

\* an error message: its text, and the number printed in it (if any)
RsiError == [text |-> "RSI oversold deve ser menor que overbought", args |-> <<>>]
SmaError == [text |-> "SMA curta deve ser menor que SMA longa", args |-> <<>>]
EmaError == [text |-> "EMA curta deve ser menor que EMA longa", args |-> <<>>]
WeightError(percent) ==
    [text |-> "Soma dos pesos deve ser 100% (atual: N%)", args |-> <<percent>>]

\* the literal 0.01
Tolerance == parseFloat(1)

\* a validateConfig that accepts equal short and long periods
validateConfigEqualPeriods(config) ==
    LET ta == config.trading.ta_params
        totalWeight == TotalWeight(config.trading.indicator_weights)
        errors ==
            IF Has(config, "trading")
            THEN (IF ta.rsi_oversold >= ta.rsi_overbought THEN <<RsiError>> ELSE <<>>)
              \o (IF ta.sma_short > ta.sma_long THEN <<SmaError>> ELSE <<>>)
              \o (IF ta.ema_short > ta.ema_long THEN <<EmaError>> ELSE <<>>)
              \o (IF DoubleGreater(AbsMinusOne(totalWeight), Tolerance)
                  THEN <<WeightError(RoundPercent(totalWeight))>> ELSE <<>>)
            ELSE <<>>
    IN  [valid |-> errors = <<>>, errors |-> errors]

\* a validateConfig that returns at its first violated rule
validateConfigFirstOnly(config) ==
    LET ta == config.trading.ta_params
        totalWeight == TotalWeight(config.trading.indicator_weights)
        errors ==
            IF ~Has(config, "trading") THEN <<>>
            ELSE IF ta.rsi_oversold >= ta.rsi_overbought THEN <<RsiError>>
            ELSE IF ta.sma_short >= ta.sma_long THEN <<SmaError>>
            ELSE IF ta.ema_short >= ta.ema_long THEN <<EmaError>>
            ELSE IF DoubleGreater(AbsMinusOne(totalWeight), Tolerance)
            THEN <<WeightError(RoundPercent(totalWeight))>>
            ELSE <<>>
    IN  [valid |-> errors = <<>>, errors |-> errors]

validateConfig(config) ==
    LET ta == config.trading.ta_params
        totalWeight == TotalWeight(config.trading.indicator_weights)
        errors ==
            IF Has(config, "trading")
            THEN (IF ta.rsi_oversold >= ta.rsi_overbought THEN <<RsiError>> ELSE <<>>)
              \o (IF ta.sma_short >= ta.sma_long THEN <<SmaError>> ELSE <<>>)
              \o (IF ta.ema_short >= ta.ema_long THEN <<EmaError>> ELSE <<>>)
              \o (IF DoubleGreater(AbsMinusOne(totalWeight), Tolerance)
                  THEN <<WeightError(RoundPercent(totalWeight))>> ELSE <<>>)
            ELSE <<>>
    IN  [valid |-> errors = <<>>, errors |-> errors]


---------------------------------------------------------------------------
(***************************************************************************)
(* The remote system and the page.  Neither is part of the sources: the    *)
(* remote is the API of section 6 of the specification, a store that       *)
(* returns what it was given; the page is the form the script is bound to. *)
(***************************************************************************)

MaxEdits == 2       \* user edits in a run
MaxRequests == 4    \* fetch requests issued in a run
MaxInFlight == 2    \* fetch requests awaiting their response at a time

\* the configuration the remote resets to
DefaultConfig ==
    [trading |-> [
        ta_params |-> [
            rsi_period |-> 1400, rsi_overbought |-> 7000, rsi_oversold |-> 3000,
            sma_short |-> 900, sma_long |-> 2100, ema_short |-> 1200,
            ema_long |-> 2600, stoch_overbought |-> 8000, stoch_oversold |-> 2000,
            min_volume_ratio |-> parseFloat(130), min_confidence |-> 6000,
            min_risk_reward |-> parseFloat(150)],
        signal_config |-> [
            max_active_signals |-> 500, signal_cooldown_minutes |-> 6000,
            stop_loss_atr_multiplier |-> parseFloat(200),
            target_multipliers |-> <<parseFloat(150), parseFloat(250), parseFloat(400)>>],
        indicator_weights |-> [
            rsi |-> parseFloat(20), macd |-> parseFloat(20), bb |-> parseFloat(20),
            stoch |-> parseFloat(20), sma_cross |-> parseFloat(10),
            volume |-> parseFloat(10)]],
     streaming |-> [bitcoin |-> [fetch_interval |-> 30000, max_queue_size |-> 10000]],
     system |-> [
        auto_start_stream |-> TRUE, require_volume_confirmation |-> TRUE,
        enable_auto_signals |-> TRUE, enable_advanced_patterns |-> FALSE,
        enable_notifications |-> TRUE, correlation_analysis |-> FALSE,
        auto_cleanup |-> TRUE, data_retention_days |-> 3000]]

\* a configuration an operator stored earlier; the remote keeps a section
\* the form does not cover
CustomConfig ==
    [trading |-> [DefaultConfig.trading EXCEPT
        !.ta_params.rsi_period = 2100,
        !.ta_params.rsi_oversold = 2500,
        !.indicator_weights.rsi = parseFloat(25),
        !.indicator_weights.macd = parseFloat(15)],
     streaming |-> DefaultConfig.streaming,
     system |-> [DefaultConfig.system EXCEPT !.auto_cleanup = FALSE],
     metadata |-> [version |-> "2.0.0"]]

InitialRemotes == {CustomConfig}

CheckboxIds == {SystemCheckboxes[i][1] : i \in DOMAIN SystemCheckboxes}

FloatSliderIds ==
    {TaFloatSliders[i][1] : i \in DOMAIN TaFloatSliders}
    \cup {SignalFloatSliders[i][1] : i \in DOMAIN SignalFloatSliders}
    \cup {WeightSliders[i][1] : i \in DOMAIN WeightSliders}
    \cup {"target-1", "target-2", "target-3"}

IntSliderIds ==
    {TaIntSliders[i][1] : i \in DOMAIN TaIntSliders}
    \cup {SignalIntSliders[i][1] : i \in DOMAIN SignalIntSliders}
    \cup {BitcoinSliders[i][1] : i \in DOMAIN BitcoinSliders}
    \cup {"cleanup-days", "fetch-interval-eth"}

InputIds == CheckboxIds \cup FloatSliderIds \cup IntSliderIds

\* the inputs as the page loads them: sliders at "50" or "0.5", boxes unchecked
InitialForm ==
    [id \in InputIds |->
        IF id \in CheckboxIds THEN FALSE
        ELSE IF id \in FloatSliderIds THEN 50 ELSE 5000]

\* what the user sets a slider to
SliderEdits == {<<"rsi-oversold", 8000>>}

\* the boxes the user toggles
CheckboxEdits == {"auto-cleanup"}

MaxReads == 1     \* picked files being read at a time

\* the files the user picks for import: text that JSON.parse rejects, and
\* the JSON text of a configuration
BrokenFile == [parsable |-> FALSE, json |-> EmptyObject]
ConfigFile(c) == [parsable |-> TRUE, json |-> c]
NoArtifact == [parsable |-> FALSE, json |-> EmptyObject, filename |-> ""]

ConfigSections == {"trading", "streaming", "system"}

\* { ...a, ...b }
Spread(a, b) ==
    [key \in (DOMAIN a) \cup (DOMAIN b) |-> IF key \in DOMAIN b THEN b[key] ELSE a[key]]

\* the exported snapshot: the configuration in a version envelope
ExportData(c) == Spread(c, [version |-> "2.0.0"])

\* what the remote stores on import: the configuration sections of the payload
ImportedConfig(stored, data) ==
    Spread(stored, [key \in (DOMAIN data) \cap ConfigSections |-> data[key]])

HealthValues == {"HEALTHY"}

\* requests
GetConfig == "/settings/api/get-config"
SaveConfig == "/settings/api/save-config"
ResetConfig == "/settings/api/reset-config"
ExportConfigUrl == "/settings/api/export-config"
ImportConfigUrl == "/settings/api/import-config"
SystemStatus == "/settings/api/system-status"

Pending == [state |-> "pending"]
Failed == [state |-> "failed"]            \* fetch rejected: no response
Answer(data) == [state |-> "ok", data |-> data]
Rejected == Answer([status |-> "error", message |-> "rejected"])

\* a fetch sent by handler op (called from caller), awaiting its response
Request(id, url, body, op, caller) ==
    [id |-> id, url |-> url, body |-> body, op |-> op, caller |-> caller,
     resp |-> Pending]

Op(op, event, outcome) == [op |-> op, event |-> event, outcome |-> outcome]

\* showToast(message, type) once, and not at all
Toast(type, text, detail) == <<[type |-> type, text |-> text, detail |-> detail]>>
NoToast == <<>>


---------------------------------------------------------------------------
(***************************************************************************)
(* SettingsManager: the handlers.  A handler runs to its first await in    *)
(* one step; the part after the await runs in the step that takes the      *)
(* settled request out of inflight.  Notification texts are the source's,  *)
(* without their accents.                                                  *)
(***************************************************************************)

\* what the handlers of the settings form never touch
OtherPages == <<original, ActionVars, DashboardVars, SignalsVars>>

Harness == <<candidate, validation, appliedLoad, OtherPages>>

\* fetch(url, body) from handler op
Send(url, body, op, caller) ==
    /\ nextId < MaxRequests
    /\ Cardinality(inflight) < MaxInFlight
    /\ inflight' = inflight \cup {Request(nextId, url, body, op, caller)}
    /\ nextId' = nextId + 1

Succeeded(resp) == resp.state = "ok" /\ resp.data.status = "success"

Outcome(resp) ==
    IF resp.state = "failed" THEN "failed"
    ELSE IF resp.data.status = "success" THEN "success" ELSE "rejected"

\* no slider is held
NoDrag == ""

\* the change listener every input and select of the page has, the file
\* input among them
changeListener == unsavedChanges' = TRUE

\* an input listener that validates the working values and puts the slider
\* back when they are not valid
EditSliderValidated(input, value) ==
    /\ edits < MaxEdits
    /\ dragging \in {NoDrag, input}
    /\ form[input] # value
    /\ edits' = edits + 1
    /\ LET edited == [form EXCEPT ![input] = value]
       IN  IF validateConfig(collectFormData(edited)).valid
           THEN form' = edited /\ unsavedChanges' = TRUE
           ELSE form' = form /\ unsavedChanges' = unsavedChanges
    /\ dragging' = input
    /\ lastOp' = Op("edit", "call", "done")
    /\ toasts' = NoToast
    /\ UNCHANGED <<currentConfig, inflight, nextId, remote, exported, statusDisplay, reading, Harness>>

\* the input listener of a range slider: the user moves the thumb to value
\* and holds it
EditSlider(input, value) ==
    /\ edits < MaxEdits
    /\ dragging \in {NoDrag, input}
    /\ form[input] # value
    /\ edits' = edits + 1
    /\ form' = [form EXCEPT ![input] = value]
    /\ unsavedChanges' = TRUE
    /\ dragging' = input
    /\ lastOp' = Op("edit", "call", "done")
    /\ toasts' = NoToast
    /\ UNCHANGED <<currentConfig, inflight, nextId, remote, exported, statusDisplay, reading, Harness>>

\* the change event of the slider, when the user releases the thumb: the
\* change listener every input has; the slider's value is what it is by then
SliderChange(input) ==
    /\ dragging = input
    /\ dragging' = NoDrag
    /\ changeListener
    /\ lastOp' = Op("edit", "change", "done")
    /\ toasts' = NoToast
    /\ UNCHANGED <<currentConfig, form, inflight, nextId, remote, edits, exported,
                   statusDisplay, reading, Harness>>

\* the change listener of a checkbox: the user toggles it
EditCheckbox(input) ==
    /\ edits < MaxEdits
    /\ edits' = edits + 1
    /\ form' = [form EXCEPT ![input] = ~form[input]]
    /\ unsavedChanges' = TRUE
    /\ lastOp' = Op("edit", "call", "done")
    /\ toasts' = NoToast
    /\ UNCHANGED <<currentConfig, inflight, nextId, remote, exported, statusDisplay, reading, dragging, Harness>>

\* loadCurrentConfig() after its response, taking the snapshot before it
\* looks at the status
loadCurrentConfigSettledEager(r, resp) ==
    /\ r.op = "loadCurrentConfig"
    /\ inflight' = inflight \ {r}
    /\ IF resp.state = "ok"
       THEN /\ currentConfig' = IF Has(resp.data, "config") THEN resp.data.config
                                ELSE EmptyObject
            /\ form' = populateForm(form, currentConfig')
            /\ unsavedChanges' = FALSE
       ELSE UNCHANGED <<currentConfig, form, unsavedChanges>>
    /\ appliedLoad' = IF resp.state = "ok" THEN r.id ELSE appliedLoad
    /\ toasts' = IF Succeeded(resp)
                 THEN Toast("success", "Configuracoes carregadas", <<>>)
                 ELSE Toast("error", "Erro ao carregar configuracoes", <<>>)
    /\ lastOp' = Op("loadCurrentConfig", "response", Outcome(resp))
    /\ UNCHANGED <<nextId, remote, edits, exported, statusDisplay, reading, dragging,
                   candidate, validation, OtherPages>>

\* loadCurrentConfig(), after its response
loadCurrentConfigSettled(r, resp) ==
    /\ r.op = "loadCurrentConfig"
    /\ inflight' = inflight \ {r}
    /\ IF Succeeded(resp)
       THEN /\ currentConfig' = resp.data.config
            /\ form' = populateForm(form, resp.data.config)
            /\ unsavedChanges' = FALSE
       ELSE UNCHANGED <<currentConfig, form, unsavedChanges>>
    /\ toasts' =
          (IF Succeeded(resp)
           THEN Toast("success", "Configuracoes carregadas", <<>>)
           ELSE IF resp.state = "ok"
           THEN Toast("error", "Erro ao carregar configuracoes: ", <<resp.data.message>>)
           ELSE Toast("error", "Erro ao carregar configuracoes", <<>>))
          \o (IF r.caller = "resetToDefaults"
              THEN Toast("success", "Configuracoes resetadas para padroes", <<>>)
              ELSE IF r.caller = "handleFileImport"
              THEN Toast("success", "Configuracao importada com sucesso", <<>>)
              ELSE NoToast)
    /\ appliedLoad' = IF Succeeded(resp) THEN r.id ELSE appliedLoad
    /\ lastOp' = Op("loadCurrentConfig", "response", Outcome(resp))
    /\ UNCHANGED <<nextId, remote, edits, exported, statusDisplay, reading, dragging,
                   candidate, validation, OtherPages>>

\* saveSettings() without its validation: the candidate is sent as collected
saveSettingsUnvalidated ==
    /\ Send(SaveConfig, [config |-> collectFormData(form), apply_immediately |-> TRUE],
            "saveSettings", "user")
    /\ lastOp' = Op("saveSettings", "call", "sent")
    /\ toasts' = NoToast
    /\ UNCHANGED <<currentConfig, form, unsavedChanges, remote, edits,
                   exported, statusDisplay, reading, dragging, Harness>>

\* saveSettings(), to its fetch
saveSettings ==
    LET configData == collectFormData(form)
        result == validateConfig(configData)
    IN  /\ IF ~result.valid
           THEN /\ toasts' = Toast("error", "Configuracao invalida: ", result.errors)
                /\ lastOp' = Op("saveSettings", "call", "invalid")
                /\ UNCHANGED <<inflight, nextId>>
           ELSE /\ Send(SaveConfig, [config |-> configData, apply_immediately |-> TRUE],
                        "saveSettings", "user")
                /\ lastOp' = Op("saveSettings", "call", "sent")
                /\ toasts' = NoToast
        /\ UNCHANGED <<currentConfig, form, unsavedChanges, remote, edits,
                       exported, statusDisplay, reading, dragging, Harness>>

\* saveSettings() after its response, clearing unsavedChanges whatever the response
saveSettingsSettledClearsAlways(r, resp) ==
    /\ r.op = "saveSettings"
    /\ inflight' = inflight \ {r}
    /\ unsavedChanges' = FALSE
    /\ IF Succeeded(resp)
       THEN /\ currentConfig' = Spread(currentConfig, r.body.config)
            /\ toasts' = Toast("success", "Configuracoes salvas e aplicadas com sucesso!", <<>>)
       ELSE /\ UNCHANGED currentConfig
            /\ toasts' = Toast("error", "Erro ao salvar configuracoes", <<>>)
    /\ lastOp' = Op("saveSettings", "response", Outcome(resp))
    /\ UNCHANGED <<form, nextId, remote, edits, exported, statusDisplay, reading, dragging, Harness>>

\* saveSettings() after its response, spreading the snapshot over the candidate
saveSettingsSettledSpreadReversed(r, resp) ==
    /\ r.op = "saveSettings"
    /\ inflight' = inflight \ {r}
    /\ IF Succeeded(resp)
       THEN /\ currentConfig' = Spread(r.body.config, currentConfig)
            /\ unsavedChanges' = FALSE
            /\ toasts' = Toast("success", "Configuracoes salvas e aplicadas com sucesso!", <<>>)
       ELSE /\ UNCHANGED <<currentConfig, unsavedChanges>>
            /\ toasts' = Toast("error", "Erro ao salvar configuracoes", <<>>)
    /\ lastOp' = Op("saveSettings", "response", Outcome(resp))
    /\ UNCHANGED <<form, nextId, remote, edits, exported, statusDisplay, reading, dragging, Harness>>

\* saveSettings(), after its response
saveSettingsSettled(r, resp) ==
    /\ r.op = "saveSettings"
    /\ inflight' = inflight \ {r}
    /\ IF Succeeded(resp)
       THEN /\ currentConfig' = Spread(currentConfig, r.body.config)
            /\ unsavedChanges' = FALSE
            /\ toasts' = Toast("success", "Configuracoes salvas e aplicadas com sucesso!", <<>>)
       ELSE /\ UNCHANGED <<currentConfig, unsavedChanges>>
            /\ toasts' = IF resp.state = "ok"
                        THEN Toast("error", "Erro ao salvar: ", <<resp.data.message>>)
                        ELSE Toast("error", "Erro ao salvar configuracoes", <<>>)
    /\ lastOp' = Op("saveSettings", "response", Outcome(resp))
    /\ UNCHANGED <<form, nextId, remote, edits, exported, statusDisplay,
                   reading, dragging, Harness>>

\* resetForm(); answer is what the user answers to confirm()
resetForm(answer) ==
    /\ IF unsavedChanges /\ ~answer
       THEN /\ lastOp' = Op("resetForm", "call", "declined")
            /\ toasts' = NoToast
            /\ UNCHANGED <<form, unsavedChanges>>
       ELSE /\ form' = populateForm(form, currentConfig)
            /\ unsavedChanges' = FALSE
            /\ toasts' = Toast("info", "Formulario resetado", <<>>)
            /\ lastOp' = Op("resetForm", "call", "done")
    /\ UNCHANGED <<currentConfig, inflight, nextId, remote, edits,
                   exported, statusDisplay, reading, dragging, Harness>>

\* resetToDefaults() without its confirm()
resetToDefaultsUnconfirmed(answer) ==
    /\ nextId + 1 < MaxRequests
    /\ Send(ResetConfig, EmptyObject, "resetToDefaults", "user")
    /\ lastOp' = Op("resetToDefaults", "call", IF answer THEN "sent" ELSE "declined")
    /\ toasts' = NoToast
    /\ UNCHANGED <<currentConfig, form, unsavedChanges, remote, edits, exported,
                   statusDisplay, reading, dragging, Harness>>

\* resetToDefaults(), to its fetch; answer is what the user answers to confirm()
resetToDefaults(answer) ==
    /\ IF ~answer
       THEN /\ lastOp' = Op("resetToDefaults", "call", "declined")
            /\ UNCHANGED <<inflight, nextId>>
       ELSE /\ nextId + 1 < MaxRequests
            /\ Send(ResetConfig, EmptyObject, "resetToDefaults", "user")
            /\ lastOp' = Op("resetToDefaults", "call", "sent")
    /\ toasts' = NoToast
    /\ UNCHANGED <<currentConfig, form, unsavedChanges, remote, edits, exported, statusDisplay, reading, dragging, Harness>>

\* resetToDefaults(), after its response, reloading whatever the response
resetToDefaultsSettledReloads(r, resp) ==
    /\ r.op = "resetToDefaults"
    /\ nextId < MaxRequests
    /\ inflight' = (inflight \ {r}) \cup
           {Request(nextId, GetConfig, EmptyObject, "loadCurrentConfig",
                    "resetToDefaults")}
    /\ nextId' = nextId + 1
    /\ toasts' = NoToast
    /\ lastOp' = Op("resetToDefaults", "response", Outcome(resp))
    /\ UNCHANGED <<currentConfig, form, unsavedChanges, remote, edits,
                   exported, statusDisplay, reading, dragging, Harness>>

\* resetToDefaults(), after its response: on success it calls loadCurrentConfig()
resetToDefaultsSettled(r, resp) ==
    /\ r.op = "resetToDefaults"
    /\ IF Succeeded(resp)
       THEN /\ nextId < MaxRequests
            /\ inflight' = (inflight \ {r}) \cup
                   {Request(nextId, GetConfig, EmptyObject, "loadCurrentConfig",
                            "resetToDefaults")}
            /\ nextId' = nextId + 1
            /\ toasts' = NoToast
       ELSE /\ inflight' = inflight \ {r}
            /\ UNCHANGED nextId
            /\ toasts' = IF resp.state = "ok"
                        THEN Toast("error", "Erro ao resetar: ", <<resp.data.message>>)
                        ELSE Toast("error", "Erro ao resetar configuracoes", <<>>)
    /\ lastOp' = Op("resetToDefaults", "response", Outcome(resp))
    /\ UNCHANGED <<currentConfig, form, unsavedChanges, remote, edits,
                   exported, statusDisplay, reading, dragging, Harness>>

\* exportConfig(), to its fetch
exportConfig ==
    /\ Send(ExportConfigUrl, EmptyObject, "exportConfig", "user")
    /\ lastOp' = Op("exportConfig", "call", "sent")
    /\ toasts' = NoToast
    /\ UNCHANGED <<currentConfig, form, unsavedChanges, remote, edits, exported, statusDisplay, reading, dragging, Harness>>

\* a configuration object with F applied to each of its numbers that are
\* not whole: the members collectFormData reads with parseFloat
MapFloats(c, F(_)) ==
    IF ~Has(c, "trading") THEN c
    ELSE [c EXCEPT !.trading =
            [@ EXCEPT
                !.ta_params = [@ EXCEPT !.min_volume_ratio = F(@),
                                        !.min_risk_reward = F(@)],
                !.signal_config =
                    [@ EXCEPT !.stop_loss_atr_multiplier = F(@),
                              !.target_multipliers = [i \in DOMAIN @ |-> F(@[i])]],
                !.indicator_weights = [w \in DOMAIN @ |-> F(@[w])]]]

\* JSON.stringify(value, null, 2): the text of the object, each double
\* written as the shortest decimal that reads back as it; whole numbers,
\* booleans and strings are written as they are
JSONstringify(value) == MapFloats(value, NumberToText)

\* JSON.parse(text): each decimal read as the nearest double
JSONparse(text) == MapFloats(text, parseFloat)

\* a decimal cut to one fractional digit
Fixed1(x) == (x.k \div 10) * 10

\* exportConfig() after its response, writing the numbers of the download
\* with one fractional digit
exportConfigSettledFixed(r, resp) ==
    /\ r.op = "exportConfig"
    /\ inflight' = inflight \ {r}
    /\ IF Succeeded(resp)
       THEN /\ exported' = [parsable |-> TRUE,
                            json |-> MapFloats(resp.data.data, Fixed1),
                            filename |-> resp.data.filename]
            /\ toasts' = Toast("success", "Configuracao exportada", <<>>)
       ELSE /\ UNCHANGED exported
            /\ toasts' = IF resp.state = "ok"
                        THEN Toast("error", "Erro ao exportar: ", <<resp.data.message>>)
                        ELSE Toast("error", "Erro ao exportar configuracao", <<>>)
    /\ lastOp' = Op("exportConfig", "response", Outcome(resp))
    /\ UNCHANGED <<currentConfig, form, unsavedChanges, nextId, remote, edits, statusDisplay, reading, dragging, Harness>>

\* exportConfig() after its response, clearing unsavedChanges once the
\* snapshot is downloaded
exportConfigSettledClearsDirty(r, resp) ==
    /\ r.op = "exportConfig"
    /\ inflight' = inflight \ {r}
    /\ IF Succeeded(resp)
       THEN /\ exported' = [parsable |-> TRUE, json |-> JSONstringify(resp.data.data),
                            filename |-> resp.data.filename]
            /\ unsavedChanges' = FALSE
            /\ toasts' = Toast("success", "Configuracao exportada", <<>>)
       ELSE /\ UNCHANGED <<exported, unsavedChanges>>
            /\ toasts' = Toast("error", "Erro ao exportar configuracao", <<>>)
    /\ lastOp' = Op("exportConfig", "response", Outcome(resp))
    /\ UNCHANGED <<currentConfig, form, nextId, remote, edits, statusDisplay,
                   reading, dragging, Harness>>

\* exportConfig(), after its response: the download is JSON.stringify(data.data)
exportConfigSettled(r, resp) ==
    /\ r.op = "exportConfig"
    /\ inflight' = inflight \ {r}
    /\ IF Succeeded(resp)
       THEN /\ exported' = [parsable |-> TRUE, json |-> JSONstringify(resp.data.data),
                            filename |-> resp.data.filename]
            /\ toasts' = Toast("success", "Configuracao exportada", <<>>)
       ELSE /\ UNCHANGED exported
            /\ toasts' = IF resp.state = "ok"
                        THEN Toast("error", "Erro ao exportar: ", <<resp.data.message>>)
                        ELSE Toast("error", "Erro ao exportar configuracao", <<>>)
    /\ lastOp' = Op("exportConfig", "response", Outcome(resp))
    /\ UNCHANGED <<currentConfig, form, unsavedChanges, nextId, remote, edits, statusDisplay, reading, dragging, Harness>>

\* handleFileImport(event) with no file chosen: it returns at once
handleFileImportNoFile ==
    /\ lastOp' = Op("handleFileImport", "call", "nofile")
    /\ toasts' = NoToast
    /\ UNCHANGED <<currentConfig, form, inflight, nextId, remote, edits, exported,
                   statusDisplay, reading, dragging, Harness>>

\* handleFileImport(event) with a file, to its await of file.text()
handleFileImport(file) ==
    /\ Cardinality(reading) < MaxReads
    /\ file \notin reading
    /\ reading' = reading \cup {file}
    /\ lastOp' = Op("handleFileImport", "call", "reading")
    /\ toasts' = NoToast
    /\ UNCHANGED <<currentConfig, form, inflight, nextId, remote, edits, exported,
                   statusDisplay, dragging, Harness>>

\* the change event of the file input: its two listeners run one after the
\* other, handleFileImport (to its first await) and the change listener
configFileInputChange(file) ==
    /\ handleFileImport(file)
    /\ changeListener

\* the change event of the file input when the user has chosen no file
configFileInputCleared ==
    /\ handleFileImportNoFile
    /\ changeListener

\* handleFileImport(event), after file.text(): JSON.parse, and the fetch
\* when the text is JSON
handleFileImportRead(file) ==
    /\ file \in reading
    /\ reading' = reading \ {file}
    /\ IF ~file.parsable
       THEN /\ toasts' = Toast("error",
                   "Erro ao importar configuracao. Verifique o formato do arquivo.", <<>>)
            /\ lastOp' = Op("handleFileImport", "call", "malformed")
            /\ UNCHANGED <<inflight, nextId>>
       ELSE /\ nextId + 1 < MaxRequests
            /\ Send(ImportConfigUrl, [config_data |-> file.json], "handleFileImport", "user")
            /\ lastOp' = Op("handleFileImport", "call", "sent")
            /\ toasts' = NoToast
    /\ UNCHANGED <<currentConfig, form, unsavedChanges, remote, edits,
                   exported, statusDisplay, dragging, Harness>>

\* handleFileImport(event), after its response: on success it calls loadCurrentConfig()
handleFileImportSettled(r, resp) ==
    /\ r.op = "handleFileImport"
    /\ IF Succeeded(resp)
       THEN /\ nextId < MaxRequests
            /\ inflight' = (inflight \ {r}) \cup
                   {Request(nextId, GetConfig, EmptyObject, "loadCurrentConfig",
                            "handleFileImport")}
            /\ nextId' = nextId + 1
            /\ toasts' = NoToast
       ELSE /\ inflight' = inflight \ {r}
            /\ UNCHANGED nextId
            /\ toasts' = IF resp.state = "ok"
                        THEN Toast("error", "Erro ao importar: ", <<resp.data.message>>)
                        ELSE Toast("error",
                   "Erro ao importar configuracao. Verifique o formato do arquivo.", <<>>)
    /\ lastOp' = Op("handleFileImport", "response", Outcome(resp))
    /\ UNCHANGED <<currentConfig, form, unsavedChanges, remote, edits,
                   exported, statusDisplay, reading, dragging, Harness>>

\* JS undefined, and obj[key] of an object
Undefined == [type |-> "undefined"]

Get(obj, key) == IF Has(obj, key) THEN obj[key] ELSE Undefined

\* the indicator lost its status class (indicator.className =
\* 'status-indicator') and status.health threw a TypeError
Threw == [threw |-> TRUE, class |-> ""]

\* displaySystemStatus(status): the indicator's class and text
displaySystemStatus(status) ==
    IF status = Undefined THEN Threw
    ELSE
    LET health == IF Has(status, "health") THEN status.health ELSE "undefined"
    IN  IF health = "HEALTHY"
        THEN [class |-> "status-active", text |-> "Sistema saudavel"]
        ELSE IF health \in {"DEGRADED", "PARTIAL"}
        THEN [class |-> "status-warning", text |-> "Sistema com problemas"]
        ELSE IF health = "ERROR"
        THEN [class |-> "status-inactive", text |-> "Sistema com erros"]
        ELSE [class |-> "status-warning", text |-> "Status desconhecido"]

\* updateSystemStatus(), to its fetch: the 30 s timer and the refresh button
updateSystemStatus ==
    /\ Send(SystemStatus, EmptyObject, "updateSystemStatus", "timer")
    /\ lastOp' = Op("updateSystemStatus", "call", "sent")
    /\ toasts' = NoToast
    /\ UNCHANGED <<currentConfig, form, unsavedChanges, remote, edits, exported, statusDisplay, reading, dragging, Harness>>

\* updateSystemStatus(), after its response
updateSystemStatusSettled(r, resp) ==
    /\ r.op = "updateSystemStatus"
    /\ inflight' = inflight \ {r}
    /\ statusDisplay' =
           IF Succeeded(resp)
           THEN LET shown == displaySystemStatus(Get(resp.data, "system_status"))
                IN  IF shown = Threw
                    THEN [class |-> shown.class, text |-> statusDisplay.text]
                    ELSE shown
           ELSE statusDisplay
    /\ lastOp' = Op("updateSystemStatus", "response", Outcome(resp))
    /\ toasts' = NoToast
    /\ UNCHANGED <<currentConfig, form, unsavedChanges, nextId, remote, edits, exported, reading, dragging, Harness>>

\* a beforeunload listener that looks at the snapshot, not at the flag
beforeunloadBySnapshot ==
    /\ lastOp' = Op("beforeunload", "call",
                     IF currentConfig # EmptyObject THEN "blocked" ELSE "allowed")
    /\ toasts' = NoToast
    /\ UNCHANGED <<currentConfig, form, unsavedChanges, inflight, nextId, remote,
                   edits, exported, statusDisplay, reading, dragging, Harness>>

\* the beforeunload listener: it blocks the navigation (preventDefault) when
\* the manager exists and has unsaved changes
beforeunload ==
    /\ lastOp' = Op("beforeunload", "call",
                     IF unsavedChanges THEN "blocked" ELSE "allowed")
    /\ toasts' = NoToast
    /\ UNCHANGED <<currentConfig, form, unsavedChanges, inflight, nextId, remote,
                   edits, exported, statusDisplay, reading, dragging, Harness>>

---------------------------------------------------------------------------
(***************************************************************************)
(* The remote answers a request, or the request fails.                     *)
(***************************************************************************)

RemoteAnswer(r, health) ==
    IF r.url = GetConfig
    THEN Answer([status |-> "success", config |-> remote])
    ELSE IF r.url = ExportConfigUrl
    THEN Answer([status |-> "success", data |-> ExportData(remote),
                 filename |-> "trading_config.json"])
    ELSE IF r.url = SystemStatus
    THEN Answer([status |-> "success", system_status |-> [health |-> health]])
    ELSE Answer([status |-> "success", message |-> "ok"])

RemoteStore(r) ==
    IF r.url = SaveConfig THEN Spread(remote, r.body.config)
    ELSE IF r.url = ResetConfig THEN DefaultConfig
    ELSE IF r.url = ImportConfigUrl THEN ImportedConfig(remote, r.body.config_data)
    ELSE remote

RemoteAccepts(r, health) ==
    /\ r.resp = Pending
    /\ r.url = SystemStatus \/ health = "HEALTHY"
    /\ inflight' = (inflight \ {r}) \cup {[r EXCEPT !.resp = RemoteAnswer(r, health)]}
    /\ remote' = RemoteStore(r)
    /\ lastOp' = Op("remote", "answer", "done")
    /\ toasts' = NoToast
    /\ UNCHANGED <<currentConfig, form, unsavedChanges, nextId, edits, exported, statusDisplay, reading, dragging, Harness>>

\* what fetch can settle with: the remote's answer once it gave one, a
\* refusal while it has not, and a failure of the network at any time
Responses(r) ==
    (IF r.resp = Pending THEN {Rejected} ELSE {r.resp}) \cup {Failed}

---------------------------------------------------------------------------
(***************************************************************************)
(* The pages at rest.  The settings page and the dashboard page are        *)
(* separate documents; a specification of one holds the state of the       *)
(* others at these values.                                                 *)
(***************************************************************************)

\* JS null
Null == "null"

\* no load response applied yet
NoLoad == 0 - 1

\* the confirmation dialog before it is ever shown
ModalHidden == [shown |-> FALSE, message |-> "", detail |-> <<>>]

\* new SettingsManager(): pendingAction and confirmCallback are not set
ActionsIdle ==
    /\ pendingAction = Null
    /\ confirmCallback = Null
    /\ modal = ModalHidden
    /\ confirmed = {}

\* this.updateInterval = null: no handle (setInterval's handles are positive)
NoTimer == 0

\* a table body or container as the page's HTML has it
Untouched == [kind |-> "untouched", rows |-> <<>>]

Cryptos == {"BTC", "ETH"}

\* the containers the dashboard writes: <crypto>-price, <crypto>-indicators,
\* <crypto>-analysis, bitcoin-status and multi-status
PanelIds == (Cryptos \X {"price", "indicators", "analysis"})
            \cup {<<"bitcoin", "status">>, <<"multi", "status">>,
                  <<"signals", "counts">>}

\* new TradingDashboard() before init(): nothing requested, nothing rendered
DashboardIdle ==
    /\ isUpdating = FALSE
    /\ currentCrypto = "BTC"
    /\ polls = EmptyBag
    /\ timers = EmptyBag
    /\ tbody = Untouched
    /\ panels = [id \in PanelIds |-> "untouched"]
    /\ updateInterval = NoTimer
    /\ monitorCheckInterval = NoTimer
    /\ intervals = {}
    /\ duplicateAlertShown = FALSE
    /\ duplicateWarnings = 0

SignalsIdle ==
    /\ signals = <<>>
    /\ renders = <<>>

---------------------------------------------------------------------------
(***************************************************************************)
(* The specification of the settings page.                                 *)
(***************************************************************************)

\* validateConfig has not been applied yet
NotValidated == <<>>

\* new SettingsManager(): init() has called loadCurrentConfig() and
\* updateSystemStatus(), whose fetches are in flight
Init ==
    /\ currentConfig = EmptyObject
    /\ form = InitialForm
    /\ unsavedChanges = FALSE
    /\ inflight = {Request(0, GetConfig, EmptyObject, "loadCurrentConfig", "init"),
                   Request(1, SystemStatus, EmptyObject, "updateSystemStatus", "init")}
    /\ nextId = 2
    /\ remote \in InitialRemotes
    /\ toasts = NoToast
    /\ lastOp = Op("init", "call", "done")
    /\ edits = 0
    /\ exported = NoArtifact
    /\ statusDisplay = [class |-> "", text |-> ""]
    /\ reading = {}
    /\ dragging = NoDrag
    /\ candidate = EmptyObject
    /\ validation = NotValidated
    /\ appliedLoad = NoLoad
    /\ original = EmptyObject
    /\ ActionsIdle
    /\ DashboardIdle
    /\ SignalsIdle

\* the files the user can pick
Files == {BrokenFile, ConfigFile(DefaultConfig)}
             \cup (IF exported.parsable THEN {ConfigFile(JSONparse(exported.json))} ELSE {})

\* the page's edits, buttons and settling requests; the file input's change
\* event and the import it starts are the steps of NextImport and NextRoundTrip
Next ==
    \/ \E e \in SliderEdits : EditSlider(e[1], e[2])
    \/ \E e \in SliderEdits : SliderChange(e[1])
    \/ \E input \in CheckboxEdits : EditCheckbox(input)
    \/ saveSettings
    \/ \E answer \in BOOLEAN : resetForm(answer)
    \/ \E answer \in BOOLEAN : resetToDefaults(answer)
    \/ exportConfig
    \/ updateSystemStatus
    \/ beforeunload
    \/ \E r \in inflight : \E resp \in Responses(r) : loadCurrentConfigSettled(r, resp)
    \/ \E r \in inflight : \E resp \in Responses(r) : saveSettingsSettled(r, resp)
    \/ \E r \in inflight : \E resp \in Responses(r) : resetToDefaultsSettled(r, resp)
    \/ \E r \in inflight : \E resp \in Responses(r) : exportConfigSettled(r, resp)
    \/ \E r \in inflight : \E resp \in Responses(r) : updateSystemStatusSettled(r, resp)
    \/ \E r \in inflight, health \in HealthValues : RemoteAccepts(r, health)

Spec == Init /\ [][Next]_vars

\* the page with its import button: the user edits, picks files, and the
\* loads and imports settle
NextImport ==
    \/ \E e \in SliderEdits : EditSlider(e[1], e[2])
    \/ \E e \in SliderEdits : SliderChange(e[1])
    \/ configFileInputCleared
    \/ \E file \in Files : configFileInputChange(file)
    \/ \E file \in reading : handleFileImportRead(file)
    \/ \E r \in inflight : \E resp \in Responses(r) : handleFileImportSettled(r, resp)
    \/ \E r \in inflight : \E resp \in Responses(r) : loadCurrentConfigSettled(r, resp)
    \/ \E r \in inflight : \E resp \in Responses(r) : updateSystemStatusSettled(r, resp)
    \/ \E r \in inflight, health \in HealthValues : RemoteAccepts(r, health)

SpecImport == Init /\ [][NextImport]_vars


---------------------------------------------------------------------------
(***************************************************************************)
(* validateConfig as a function: the form holds one of a bounded set of    *)
(* working copies, validateConfig is applied to the candidate collected    *)
(* from it, and saveSettings is pressed.                                   *)
(***************************************************************************)

\* the form showing the default configuration
DefaultForm == populateForm(InitialForm, DefaultConfig)

\* <<oversold, overbought>> and <<short, long>> settings
RsiPairs == {<<3000, 7000>>, <<7000, 7000>>, <<8000, 7000>>}
StochPairs == {<<2000, 8000>>, <<8000, 8000>>, <<9000, 8000>>}
SmaPairs == {<<900, 2100>>, <<2100, 2100>>, <<5000, 2100>>}
EmaPairs == {<<1200, 2600>>, <<2600, 2600>>, <<3000, 2600>>}

\* weight sliders, in hundredths
RsiWeights == {0, 20}
MacdWeights == {20, 50}
SmaWeights == {0, 10}
VolumeWeights == {1, 9, 10, 11, 12, 30, 39, 40}

ValidationForms ==
    {[DefaultForm EXCEPT
        !["rsi-oversold"] = rsi[1], !["rsi-overbought"] = rsi[2],
        !["stoch-oversold"] = stoch[1], !["stoch-overbought"] = stoch[2],
        !["sma-short"] = sma[1], !["sma-long"] = sma[2],
        !["ema-short"] = ema[1], !["ema-long"] = ema[2],
        !["weight-rsi"] = w[1], !["weight-macd"] = w[2],
        !["weight-sma"] = w[3], !["weight-volume"] = w[4]] :
     rsi \in RsiPairs, stoch \in StochPairs, sma \in SmaPairs, ema \in EmaPairs,
     w \in RsiWeights \X MacdWeights \X SmaWeights \X VolumeWeights}

InitValidate ==
    /\ form \in ValidationForms
    /\ candidate = collectFormData(form)
    /\ validation = NotValidated
    /\ currentConfig = DefaultConfig
    /\ unsavedChanges = TRUE
    /\ inflight = {}
    /\ nextId = 0
    /\ remote = DefaultConfig
    /\ toasts = NoToast
    /\ lastOp = Op("edit", "call", "done")
    /\ edits = 0
    /\ exported = NoArtifact
    /\ statusDisplay = [class |-> "", text |-> ""]
    /\ reading = {}
    /\ dragging = NoDrag
    /\ appliedLoad = NoLoad
    /\ original = EmptyObject
    /\ ActionsIdle
    /\ DashboardIdle
    /\ SignalsIdle

\* validateConfig(candidate)
ValidateCandidate ==
    /\ validation = NotValidated
    /\ validation' = validateConfig(candidate)
    /\ UNCHANGED <<currentConfig, form, unsavedChanges, inflight, nextId, remote,
                   toasts, lastOp, edits, exported, statusDisplay, reading, dragging,
                   candidate, appliedLoad, OtherPages>>

NextValidate ==
    \/ ValidateCandidate
    \/ saveSettings

SpecValidate == InitValidate /\ [][NextValidate]_vars

---------------------------------------------------------------------------
(***************************************************************************)
(* Properties                                                              *)
(***************************************************************************)

Range(seq) == {seq[i] : i \in DOMAIN seq}

\* the last step was the call of handler op (to its first await)
Called(op) == lastOp.op = op /\ lastOp.event = "call"

\* the last step was the part of handler op after its response
Resumed(op) == lastOp.op = op /\ lastOp.event = "response"

ShowsError(ts) == ts # <<>> /\ ts[1].type = "error"

\* C1: saveSettings sends nothing when validateConfig reports the collected
\* candidate invalid: the step of a saveSettings call from a form whose
\* candidate fails validation leaves the requests in flight, the number of
\* requests issued, currentConfig and unsavedChanges as they were, and
\* every save-config request in flight carries a candidate that validates.
C1_InvalidNeverSent ==
    [][/\ (Called("saveSettings")' /\ ~validateConfig(collectFormData(form)).valid)
            => /\ inflight' = inflight
               /\ nextId' = nextId
               /\ currentConfig' = currentConfig
               /\ unsavedChanges' = unsavedChanges
       /\ \A r \in inflight' :
            r.url = SaveConfig => validateConfig(r.body.config).valid]_vars

\* C1 witness: after a load, the user made the form invalid and pressed save
C1_Witness ==
    /\ Called("saveSettings")
    /\ lastOp.outcome = "invalid"
    /\ ShowsError(toasts)
    /\ unsavedChanges
    /\ currentConfig # EmptyObject
    /\ ~validateConfig(collectFormData(form)).valid

OversoldViolated(ta) ==
    \/ ta.rsi_oversold >= ta.rsi_overbought
    \/ ta.stoch_oversold >= ta.stoch_overbought

\* C2: whenever an oversold bound of the candidate is not below its
\* overbought bound (the RSI pair or the stochastic pair), validateConfig
\* returns a non-empty error list (with the RSI message for the RSI pair),
\* and saveSettings sends no request.
C2_OversoldRejected ==
    OversoldViolated(candidate.trading.ta_params) =>
        /\ validation # NotValidated =>
              /\ validation.errors # <<>>
              /\ ~validation.valid
              /\ candidate.trading.ta_params.rsi_oversold
                     >= candidate.trading.ta_params.rsi_overbought
                   => RsiError \in Range(validation.errors)
        /\ Called("saveSettings") => inflight = {}

SumOfHundredths(weights) ==
    NumberToText(weights.rsi) + NumberToText(weights.macd) + NumberToText(weights.bb)
    + NumberToText(weights.stoch) + NumberToText(weights.sma_cross)
    + NumberToText(weights.volume)

WeightErrors(errors) == SelectSeq(errors, LAMBDA e : e.args # <<>>)

\* C3: with the weights in hundredths, validateConfig reports no weight-sum
\* error when the sum is from 0.99 to 1.01, and exactly one, carrying the
\* rounded percentage, when it is outside.
C3_WeightTolerance ==
    validation # NotValidated =>
        LET sum == SumOfHundredths(candidate.trading.indicator_weights)
        IN  IF sum >= 99 /\ sum <= 101
            THEN WeightErrors(validation.errors) = <<>>
            ELSE WeightErrors(validation.errors) = <<WeightError(sum)>>


\* the form shows configuration c: what collectFormData reads from it is c,
\* section by section
FormShows(f, c) == \A section \in ConfigSections : collectFormData(f)[section] = c[section]

\* C4: a failed saveSettings (the network failed, or the response's status
\* is not success) shows an error and leaves unsavedChanges (so a dirty
\* form stays dirty), the form and currentConfig as they were.
C4_FailedSaveKeepsEdits ==
    [][(Resumed("saveSettings")' /\ lastOp'.outcome # "success")
          => /\ ShowsError(toasts')
             /\ unsavedChanges' = unsavedChanges
             /\ form' = form
             /\ currentConfig' = currentConfig]_vars

\* C4 witness: the save of an edited form failed; the form is dirty and
\* still differs from the snapshot
C4_Witness ==
    /\ Resumed("saveSettings")
    /\ lastOp.outcome = "failed"
    /\ unsavedChanges
    /\ currentConfig # EmptyObject
    /\ ~FormShows(form, currentConfig)

\* C5: when the response to saveSettings is a success, currentConfig's
\* trading, streaming and system sections become those of the candidate
\* the request carries (collected when the save started), and
\* unsavedChanges is cleared.
C5_SuccessfulSaveReplaces ==
    [][\A r \in inflight :
          (r \notin inflight' /\ r.op = "saveSettings" /\ Resumed("saveSettings")'
              /\ lastOp'.outcome = "success")
          => /\ \A section \in ConfigSections :
                    currentConfig'[section] = r.body.config[section]
             /\ ~unsavedChanges']_vars

\* C5 witness: a save succeeded and changed the snapshot that was loaded
C5_Witness ==
    /\ Resumed("saveSettings")
    /\ lastOp.outcome = "success"
    /\ ~unsavedChanges
    /\ Has(currentConfig, "metadata")
    /\ currentConfig.system # CustomConfig.system

\* C6: when loadCurrentConfig succeeds, currentConfig becomes the remote's
\* configuration, the form shows it and unsavedChanges is false; when it
\* fails, an error is shown and currentConfig, the form and unsavedChanges
\* are as they were.
C6_LoadReplacesOrKeeps ==
    [][\A r \in inflight :
          (r \notin inflight' /\ r.op = "loadCurrentConfig"
              /\ Resumed("loadCurrentConfig")')
          => IF lastOp'.outcome = "success"
             THEN /\ r.resp.state = "ok"
                  /\ currentConfig' = r.resp.data.config
                  /\ FormShows(form', r.resp.data.config)
                  /\ ~unsavedChanges'
             ELSE /\ ShowsError(toasts')
                  /\ currentConfig' = currentConfig
                  /\ form' = form
                  /\ unsavedChanges' = unsavedChanges]_vars

\* C6 witness: a load failed over a dirty form and an earlier snapshot
C6_Witness ==
    /\ Resumed("loadCurrentConfig")
    /\ lastOp.outcome # "success"
    /\ unsavedChanges
    /\ currentConfig # EmptyObject

\* C7 as stated: unsavedChanges goes from true to false only in the step of
\* a successful load (a successful reset clears it through its reload) or
\* of a successful save; in particular not in a local form reset.
C7_ClearedOnlyByLoadSaveReset ==
    [][(unsavedChanges /\ ~unsavedChanges')
          => \/ lastOp' = Op("loadCurrentConfig", "response", "success")
             \/ lastOp' = Op("saveSettings", "response", "success")]_vars

\* C7 amended: unsavedChanges goes from true to false only in the step of a
\* successful load (a successful reset clears it through its reload), of a
\* successful save, or of a resetForm that the user confirmed; no failed
\* request, validation failure, export, status poll or system action
\* clears it.
C7_ClearedOnlyByLoadSaveResetForm ==
    [][(unsavedChanges /\ ~unsavedChanges')
          => \/ lastOp' = Op("loadCurrentConfig", "response", "success")
             \/ lastOp' = Op("saveSettings", "response", "success")
             \/ lastOp' = Op("resetForm", "call", "done")]_vars

\* C7 witness: resetForm ran after an edit and left the form clean
C7_Witness ==
    /\ lastOp = Op("resetForm", "call", "done")
    /\ edits > 0
    /\ currentConfig # EmptyObject
    /\ ~unsavedChanges

\* C8: the beforeunload listener blocks the navigation exactly when
\* unsavedChanges is true at the event.
C8_GuardIffDirty ==
    [][Called("beforeunload")' => (lastOp'.outcome = "blocked" <=> unsavedChanges)]_vars

\* C8 witness: the navigation was blocked
C8_Witness ==
    /\ Called("beforeunload")
    /\ lastOp.outcome = "blocked"
    /\ unsavedChanges

\* C9: a reset-config request is sent only by a resetToDefaults the user
\* confirmed, and a resetToDefaults the user declined leaves the requests,
\* currentConfig, the form and unsavedChanges as they were.
C9_ResetNeedsConfirmation ==
    [][/\ \A r \in inflight' :
             (r.url = ResetConfig /\ \A q \in inflight : q.id # r.id)
                 => lastOp' = Op("resetToDefaults", "call", "sent")
       /\ lastOp' = Op("resetToDefaults", "call", "declined")
             => /\ inflight' = inflight
                /\ nextId' = nextId
                /\ currentConfig' = currentConfig
                /\ form' = form
                /\ unsavedChanges' = unsavedChanges]_vars

\* C9 witness: the user declined the reset over a dirty form
C9_Witness ==
    /\ lastOp = Op("resetToDefaults", "call", "declined")
    /\ unsavedChanges
    /\ currentConfig # EmptyObject

\* C10: the import of a file JSON.parse rejects shows an error, sends no
\* request, and leaves currentConfig, the form and unsavedChanges as they
\* were, from the change event that picks the file to the error.
C10_MalformedImportChangesNothing ==
    [][/\ \A file \in Files :
            (~file.parsable /\ configFileInputChange(file)) =>
                /\ inflight' = inflight
                /\ nextId' = nextId
                /\ currentConfig' = currentConfig
                /\ form' = form
                /\ unsavedChanges' = unsavedChanges
       /\ lastOp' = Op("handleFileImport", "call", "malformed")
          => /\ ShowsError(toasts')
             /\ inflight' = inflight
             /\ nextId' = nextId
             /\ currentConfig' = currentConfig
             /\ form' = form
             /\ unsavedChanges' = unsavedChanges]_vars

---------------------------------------------------------------------------
(***************************************************************************)
(* The signals table (TradingDashboard, static/js/dashboard.js, and the    *)
(* modular TradingDashboard of src/unnamed/part_002).                      *)
(*                                                                         *)
(* A signal is a record [id, created_at, current_pnl]: created_at is the   *)
(* time new Date(signal.created_at) denotes, in milliseconds; current_pnl  *)
(* stands for the fields a duplicate of the same id may carry differently. *)
(* A row of the table is the record of what the <tr> shows of its signal.  *)
(***************************************************************************)

\* uniqueSignals.slice(0, 20)
DisplayWindow == 20

\* self.findIndex(s => s.id === id), on a list that has such an element
findIndex(self, id) ==
    CHOOSE i \in 1..Len(self) :
        /\ self[i].id = id
        /\ \A j \in 1..(i - 1) : self[j].id # id

RECURSIVE FilterFrom(_, _)
\* signals.filter((signal, index, self) => index === self.findIndex(...)),
\* from index on
FilterFrom(self, index) ==
    IF index > Len(self) THEN <<>>
    ELSE (IF index = findIndex(self, self[index].id) THEN <<self[index]>> ELSE <<>>)
         \o FilterFrom(self, index + 1)

removeDuplicateSignals(sigs) == FilterFrom(sigs, 1)

\* (a, b) => new Date(b.created_at) - new Date(a.created_at)
CompareCreated(a, b) == b.created_at - a.created_at

RECURSIVE InsertSorted(_, _)
\* x into a sorted list, behind every element the comparator does not put
\* after it (Array.prototype.sort is stable)
InsertSorted(sorted, x) ==
    IF sorted = <<>> THEN <<x>>
    ELSE IF CompareCreated(Head(sorted), x) <= 0
         THEN <<Head(sorted)>> \o InsertSorted(Tail(sorted), x)
         ELSE <<x>> \o sorted

RECURSIVE SortFrom(_, _, _)
SortFrom(sigs, i, sorted) ==
    IF i > Len(sigs) THEN sorted
    ELSE SortFrom(sigs, i + 1, InsertSorted(sorted, sigs[i]))

\* array.sort(compare by created_at, descending)
SortByCreatedDesc(sigs) == SortFrom(sigs, 1, <<>>)

\* array.slice(0, n)
Slice(sigs, n) == SubSeq(sigs, 1, IF Len(sigs) < n THEN Len(sigs) ELSE n)

\* the <tr> of a signal
Row(signal) ==
    [id |-> signal.id, created |-> signal.created_at, pnl |-> signal.current_pnl]

Rows(sigs) == [i \in 1..Len(sigs) |-> Row(sigs[i])]

\* "Nenhum sinal ativo no momento"
EmptyTable == [kind |-> "empty", rows |-> <<>>]

\* "Erro ao carregar sinais"
ErrorTable == [kind |-> "error", rows |-> <<>>]

\* tbody.innerHTML = html
Table(rows) == [kind |-> "rows", rows |-> rows]

\* a displaySignalsTable that renders the signals in the order they arrive
displaySignalsTableUnsorted(sigs) ==
    IF Len(sigs) = 0 THEN EmptyTable
    ELSE Table(Rows(Slice(removeDuplicateSignals(sigs), DisplayWindow)))

\* displaySignalsTable(signals) of static/js/dashboard.js: what it leaves in
\* tbody; the array it is given is not written
displaySignalsTable(sigs) ==
    IF Len(sigs) = 0 THEN EmptyTable
    ELSE Table(Rows(Slice(SortByCreatedDesc(removeDuplicateSignals(sigs)),
                          DisplayWindow)))

\* displaySignalsTable(signals) of the modular dashboard: signals.sort(...)
\* sorts the array it is given in place, and nothing removes duplicates
displaySignalsTableModular(sigs) ==
    IF Len(sigs) = 0 THEN [tbody |-> EmptyTable, signals |-> sigs]
    ELSE [tbody |-> Table(Rows(Slice(SortByCreatedDesc(sigs), DisplayWindow))),
          signals |-> SortByCreatedDesc(sigs)]

---------------------------------------------------------------------------
(***************************************************************************)
(* TradingDashboard (static/js/dashboard.js): the polling.  A fetch in     *)
(* flight is an element of the bag polls: the updater that awaits it, the  *)
(* crypto it is for, and whether updateAll's Promise.all waits for it.     *)
(* What a fetch settles with is chosen when it settles.                    *)
(***************************************************************************)

MaxPolls == 6     \* dashboard fetches awaiting their response at a time
MaxFetches == 11   \* dashboard fetches issued in a run
MaxTimers == 1    \* setTimeout callbacks waiting at a time
MaxClicks == 1    \* clicks of the user on the dashboard in a run

Poll(op, crypto, caller) == [op |-> op, crypto |-> crypto, caller |-> caller]

\* what the signals feed answers: nothing, and a list where signal 1 comes
\* twice with different fields
SignalFeeds ==
    { <<>>,
      << [id |-> 1, created_at |-> 100, current_pnl |-> 0],
         [id |-> 2, created_at |-> 200, current_pnl |-> 0],
         [id |-> 1, created_at |-> 300, current_pnl |-> 5] >> }

\* response.ok with a body, response.ok false, and fetch rejected
\* the dashboard's handlers leave no trace of which of them ran last
DashboardStep == Op("dashboard", "step", "done")

HttpOk(data) == [state |-> "ok", data |-> data]
HttpError == [state |-> "http", data |-> EmptyObject]
NetworkError == [state |-> "failed", data |-> EmptyObject]

\* the settings page's state, the harnesses and the histories, and the
\* interval handles, which startUpdates and stopUpdates alone assign
NotDashboard ==
    <<currentConfig, form, unsavedChanges, inflight, remote, exported,
      statusDisplay, reading, dragging, candidate, validation, appliedLoad, original, ActionVars,
      SignalsVars, Intervals>>

\* fetch(...) by each of the updaters in reqs
Fetch(reqs) ==
    /\ BagCardinality(polls) + Cardinality(reqs) <= MaxPolls
    /\ nextId + Cardinality(reqs) <= MaxFetches
    /\ polls' = polls (+) SetToBag(reqs)
    /\ nextId' = nextId + Cardinality(reqs)

\* the fetch req settles; next are the fetches its updater goes on to send
Settle(req, next) ==
    /\ BagIn(req, polls)
    /\ nextId + Cardinality(next) <= MaxFetches
    /\ polls' = (polls (-) SetToBag({req})) (+) SetToBag(next)
    /\ nextId' = nextId + Cardinality(next)

\* an updateAll that clears isUpdating at the end of updateSystemStatus's
\* try block and has no finally
FinallyUpdateAllAfterStatus(req) ==
    isUpdating' = IF req.caller = "updateAll"
                     /\ req.op = "updateSystemStatusMulti"
                     /\ \A q \in BagToSet(polls') : q.caller # "updateAll"
                  THEN FALSE ELSE isUpdating

\* updateAll's finally: isUpdating is cleared when the last of the fetches
\* its Promise.all waits for has settled
FinallyUpdateAll(req) ==
    isUpdating' = IF req.caller = "updateAll"
                     /\ \A q \in BagToSet(polls') : q.caller # "updateAll"
                  THEN FALSE ELSE isUpdating

\* updateCryptoData(crypto): Promise.all of the three updaters
updateCryptoData(crypto, caller) ==
    { Poll("updatePrice", crypto, caller),
      Poll("updateIndicators", crypto, caller),
      Poll("updateAnalysis", crypto, caller) }

\* updateAll(), to its fetches; source is "interval" (startUpdates and its
\* 10 s timer) or "forceUpdate" (the refresh button)
updateAll(source) ==
    /\ source = "forceUpdate" => edits < MaxClicks
    /\ edits' = IF source = "forceUpdate" THEN edits + 1 ELSE edits
    /\ toasts' = IF source = "forceUpdate"
                 THEN Toast("info", "Atualizando dados...", <<>>) ELSE NoToast
    /\ IF isUpdating
       THEN UNCHANGED <<isUpdating, polls, nextId>>
       ELSE /\ Fetch(updateCryptoData(currentCrypto, "updateAll")
                     \cup { Poll("updateSignalsTable", "", "updateAll"),
                            Poll("updateSystemStatus", "", "updateAll") })
            /\ isUpdating' = TRUE
    /\ lastOp' = DashboardStep
    /\ UNCHANGED <<currentCrypto, timers, tbody, panels, DuplicateAlert, NotDashboard>>

\* switchCrypto(crypto): the click on a crypto tab
switchCrypto(crypto) ==
    /\ edits < MaxClicks
    /\ edits' = edits + 1
    /\ currentCrypto' = crypto
    /\ Fetch(updateCryptoData(crypto, "switchCrypto"))
    /\ lastOp' = DashboardStep
    /\ toasts' = NoToast
    /\ UNCHANGED <<isUpdating, timers, tbody, panels, DuplicateAlert, NotDashboard>>

\* updatePrice(crypto), after its fetch
updatePriceSettled(req, resp) ==
    /\ req.op = "updatePrice"
    /\ Settle(req, {})
    /\ FinallyUpdateAll(req)
    /\ IF resp.state = "ok"
       THEN /\ panels' = [panels EXCEPT ![<<req.crypto, "price">>] = "price"]
            /\ toasts' = NoToast
       ELSE /\ toasts' = Toast("error", "Erro ao carregar preco de ", <<req.crypto>>)
            /\ UNCHANGED panels
    /\ lastOp' = DashboardStep
    /\ UNCHANGED <<currentCrypto, timers, tbody, edits, DuplicateAlert, NotDashboard>>

\* displayIndicators(crypto, indicators): what it leaves in the container
displayIndicators(indicators) ==
    IF indicators = "none" THEN "no-indicators" ELSE "indicators"

\* updateIndicators(crypto), after its fetch
updateIndicatorsSettled(req, resp) ==
    /\ req.op = "updateIndicators"
    /\ Settle(req, {})
    /\ FinallyUpdateAll(req)
    /\ panels' = [panels EXCEPT ![<<req.crypto, "indicators">>] =
                     IF resp.state = "ok"
                     THEN displayIndicators(resp.data.technical_indicators)
                     ELSE "placeholder"]
    /\ lastOp' = DashboardStep
    /\ toasts' = NoToast
    /\ UNCHANGED <<currentCrypto, timers, tbody, edits, DuplicateAlert, NotDashboard>>

\* displayAnalysis(crypto, analysis): what it leaves in the container
displayAnalysis(analysis) ==
    IF analysis = "none" THEN "placeholder" ELSE "analysis"

\* updateAnalysis(crypto), after its fetch
updateAnalysisSettled(req, resp) ==
    /\ req.op = "updateAnalysis"
    /\ Settle(req, {})
    /\ FinallyUpdateAll(req)
    /\ panels' = [panels EXCEPT ![<<req.crypto, "analysis">>] =
                     IF resp.state = "ok"
                     THEN displayAnalysis(resp.data.signal_analysis)
                     ELSE "placeholder"]
    /\ lastOp' = DashboardStep
    /\ toasts' = NoToast
    /\ UNCHANGED <<currentCrypto, timers, tbody, edits, DuplicateAlert, NotDashboard>>

\* updateSignalsCounts(signals): the text of the total counter, for the
\* feeds of SignalFeeds
updateSignalsCounts(sigs) ==
    <<"0 Total", "1 Total", "2 Total", "3 Total">>[Len(sigs) + 1]

\* the ids checkForDuplicateSignals pushes to duplicates: one for each
\* signal whose id an earlier signal of the array has
Duplicates(sigs) ==
    {i \in 1..Len(sigs) : \E j \in 1..(i - 1) : sigs[j].id = sigs[i].id}

\* a checkForDuplicateSignals that warns whenever the array has duplicates
checkForDuplicateSignalsRepeating(sigs) ==
    IF Cardinality(Duplicates(sigs)) > 0
    THEN [duplicateAlertShown |-> TRUE, duplicateWarnings |-> duplicateWarnings + 1]
    ELSE [duplicateAlertShown |-> duplicateAlertShown,
          duplicateWarnings |-> duplicateWarnings]

\* checkForDuplicateSignals(signals): what it leaves in duplicateAlertShown
\* and on the console
checkForDuplicateSignals(sigs) ==
    IF Cardinality(Duplicates(sigs)) > 0 /\ ~duplicateAlertShown
    THEN [duplicateAlertShown |-> TRUE, duplicateWarnings |-> duplicateWarnings + 1]
    ELSE [duplicateAlertShown |-> duplicateAlertShown,
          duplicateWarnings |-> duplicateWarnings]

\* updateSignalsTable(), after its fetch.  The monitor line (updateMonitorInfo)
\* and the monitor's console warnings (checkSignalMonitorStatus) are not
\* part of the state.
updateSignalsTableSettled(req, resp) ==
    /\ req.op = "updateSignalsTable"
    /\ Settle(req, {})
    /\ FinallyUpdateAll(req)
    /\ IF resp.state = "ok" /\ resp.data.success
       THEN /\ duplicateAlertShown' =
                   checkForDuplicateSignals(resp.data.active_signals).duplicateAlertShown
            /\ duplicateWarnings' =
                   checkForDuplicateSignals(resp.data.active_signals).duplicateWarnings
            /\ tbody' = displaySignalsTable(resp.data.active_signals)
            /\ panels' = [panels EXCEPT ![<<"signals", "counts">>] =
                             updateSignalsCounts(resp.data.active_signals)]
       ELSE /\ tbody' = ErrorTable
            /\ UNCHANGED <<panels, DuplicateAlert>>
    /\ lastOp' = DashboardStep
    /\ toasts' = NoToast
    /\ UNCHANGED <<currentCrypto, timers, edits, NotDashboard>>

\* updateStatusDisplay(elementId, isOnline, customText)
updateStatusDisplay(isOnline, customText) ==
    IF customText # Null THEN customText
    ELSE IF isOnline THEN "Online" ELSE "Offline"

\* updateSystemStatus(), after its fetch of /api/bitcoin/status: it goes on
\* to fetch /api/multi-asset/health unless the first fetch was rejected
updateSystemStatusBitcoinSettled(req, resp) ==
    /\ req.op = "updateSystemStatus"
    /\ Settle(req, IF resp.state = "failed" THEN {}
                   ELSE {Poll("updateSystemStatusMulti", "", req.caller)})
    /\ FinallyUpdateAll(req)
    /\ panels' = IF resp.state = "ok"
                 THEN [panels EXCEPT ![<<"bitcoin", "status">>] =
                          updateStatusDisplay(resp.data.is_running, Null)]
                 ELSE panels
    /\ lastOp' = DashboardStep
    /\ toasts' = NoToast
    /\ UNCHANGED <<currentCrypto, timers, tbody, edits, DuplicateAlert, NotDashboard>>

\* an updateSystemStatus that takes HEALTHY alone for healthy
updateSystemStatusMultiSettledStrict(req, resp) ==
    /\ req.op = "updateSystemStatusMulti"
    /\ Settle(req, {})
    /\ FinallyUpdateAll(req)
    /\ panels' = [panels EXCEPT ![<<"multi", "status">>] =
                     IF resp.state = "ok"
                     THEN updateStatusDisplay(resp.data.overall_status = "HEALTHY", Null)
                     ELSE IF resp.state = "http"
                     THEN updateStatusDisplay(FALSE, "Nao disponivel")
                     ELSE updateStatusDisplay(FALSE, "Nao configurado")]
    /\ lastOp' = DashboardStep
    /\ toasts' = NoToast
    /\ UNCHANGED <<currentCrypto, timers, tbody, edits, DuplicateAlert, NotDashboard>>

\* updateSystemStatus(), after its fetch of /api/multi-asset/health
updateSystemStatusMultiSettled(req, resp) ==
    /\ req.op = "updateSystemStatusMulti"
    /\ Settle(req, {})
    /\ FinallyUpdateAll(req)
    /\ panels' = [panels EXCEPT ![<<"multi", "status">>] =
                     IF resp.state = "ok"
                     THEN updateStatusDisplay(
                              resp.data.overall_status \in {"HEALTHY", "PARTIAL"}, Null)
                     ELSE IF resp.state = "http"
                     THEN updateStatusDisplay(FALSE, "Nao disponivel")
                     ELSE updateStatusDisplay(FALSE, "Nao configurado")]
    /\ lastOp' = DashboardStep
    /\ toasts' = NoToast
    /\ UNCHANGED <<currentCrypto, timers, tbody, edits, DuplicateAlert, NotDashboard>>

\* the buttons that post an action and refresh the signals table later:
\* generateTestSignal(), cleanupDuplicateSignals(), forceSignalCheck()
SignalActions == {"generateTestSignal", "cleanupDuplicateSignals", "forceSignalCheck"}

\* a click on one of those buttons, to its fetch
SignalAction(op) ==
    /\ edits < MaxClicks
    /\ edits' = edits + 1
    /\ Fetch({Poll(op, "", "click")})
    /\ toasts' = IF op = "forceSignalCheck"
                 THEN Toast("info", "Verificando sinais...", <<>>) ELSE NoToast
    /\ lastOp' = DashboardStep
    /\ UNCHANGED <<isUpdating, currentCrypto, timers, tbody, panels,
                   DuplicateAlert, NotDashboard>>

\* the notification each of them shows for a response
SignalActionToast(op, resp) ==
    LET done == resp.state = "ok" /\ (op = "generateTestSignal" \/ resp.data.success)
    IN  IF op = "generateTestSignal"
        THEN IF done THEN Toast("success", "Sinal de teste gerado com sucesso!", <<>>)
             ELSE Toast("error", "Erro ao gerar sinal de teste", <<>>)
        ELSE IF op = "cleanupDuplicateSignals"
        THEN IF done THEN Toast("success", "Sinais duplicados removidos", <<>>)
             ELSE NoToast
        ELSE IF done THEN Toast("success", "Verificacao de sinais concluida", <<>>)
             ELSE IF resp.state = "ok" THEN Toast("error", "", <<resp.data.error>>)
             ELSE IF resp.state = "failed"
             THEN Toast("error", "Erro ao verificar sinais", <<>>)
             ELSE NoToast

\* after the fetch of one of them: setTimeout(() => this.updateSignalsTable(), ...)
\* when the action was done
SignalActionSettled(req, resp) ==
    LET done == resp.state = "ok"
                /\ (req.op = "generateTestSignal" \/ resp.data.success)
    IN  /\ req.op \in SignalActions
        /\ Settle(req, {})
        /\ IF done
           THEN /\ BagCardinality(timers) < MaxTimers
                /\ timers' = timers (+) SetToBag({"updateSignalsTable"})
           ELSE UNCHANGED timers
        /\ toasts' = SignalActionToast(req.op, resp)
        /\ lastOp' = DashboardStep
        /\ UNCHANGED <<isUpdating, currentCrypto, tbody, panels, edits,
                       DuplicateAlert, NotDashboard>>

\* the system controls: controlBitcoin(action) and controlMultiAsset(action)
SystemControls == {"controlBitcoin", "controlMultiAsset"}

ControlActions == {"start", "stop"}

\* the fetch a system control awaits, with the action it was clicked for
ControlPoll(op, action) ==
    [op |-> op, crypto |-> "", caller |-> "click", action |-> action]

\* a click on start-bitcoin, stop-bitcoin, start-multi or stop-multi, to the
\* POST of the control
SystemControl(op, action) ==
    /\ edits < MaxClicks
    /\ edits' = edits + 1
    /\ Fetch({ControlPoll(op, action)})
    /\ toasts' = NoToast
    /\ lastOp' = DashboardStep
    /\ UNCHANGED <<isUpdating, currentCrypto, timers, tbody, panels,
                   DuplicateAlert, NotDashboard>>

\* the notification a control shows for a response
SystemControlToast(req, resp) ==
    IF resp.state = "ok" THEN Toast("success", "", <<resp.data.message>>)
    ELSE IF req.op = "controlBitcoin"
    THEN Toast("error", IF req.action = "start" THEN "Erro ao iniciar Bitcoin"
                        ELSE "Erro ao parar Bitcoin", <<>>)
    ELSE Toast("warning", "Multi-Asset pode nao estar disponivel", <<>>)

\* controlBitcoin / controlMultiAsset after the fetch: on an OK response
\* setTimeout(() => this.updateSystemStatus(), 1000)
SystemControlSettled(req, resp) ==
    /\ req.op \in SystemControls
    /\ Settle(req, {})
    /\ IF resp.state = "ok"
       THEN /\ BagCardinality(timers) < MaxTimers
            /\ timers' = timers (+) SetToBag({"updateSystemStatus"})
       ELSE UNCHANGED timers
    /\ toasts' = SystemControlToast(req, resp)
    /\ lastOp' = DashboardStep
    /\ UNCHANGED <<isUpdating, currentCrypto, tbody, panels, edits,
                   DuplicateAlert, NotDashboard>>

\* a setTimeout callback runs: updateSignalsTable() or updateSystemStatus()
\* on its own, to its fetch
TimerFires(callback) ==
    /\ BagIn(callback, timers)
    /\ timers' = timers (-) SetToBag({callback})
    /\ Fetch({Poll(callback, "", "timeout")})
    /\ lastOp' = DashboardStep
    /\ toasts' = NoToast
    /\ UNCHANGED <<isUpdating, currentCrypto, tbody, panels, edits,
                   DuplicateAlert, NotDashboard>>

\* the settings page before it is opened, and the harnesses at rest
SettingsIdle ==
    /\ currentConfig = EmptyObject
    /\ form = InitialForm
    /\ unsavedChanges = FALSE
    /\ inflight = {}
    /\ remote = DefaultConfig
    /\ exported = NoArtifact
    /\ statusDisplay = [class |-> "", text |-> ""]
    /\ reading = {}
    /\ dragging = NoDrag
    /\ candidate = EmptyObject
    /\ validation = NotValidated
    /\ appliedLoad = NoLoad
    /\ original = EmptyObject

\* the handles setInterval gives startUpdates()
UpdateTimer == [id |-> 1, callback |-> "updateAll"]
MonitorTimer == [id |-> 2, callback |-> "checkSystemHealth"]

\* new TradingDashboard(): init() has called startUpdates(), whose first
\* updateAll() has its fetches in flight and whose two intervals are set
InitDashboard ==
    /\ isUpdating = TRUE
    /\ updateInterval = UpdateTimer.id
    /\ monitorCheckInterval = MonitorTimer.id
    /\ intervals = {UpdateTimer, MonitorTimer}
    /\ duplicateAlertShown = FALSE
    /\ duplicateWarnings = 0
    /\ currentCrypto = "BTC"
    /\ polls = SetToBag(updateCryptoData("BTC", "updateAll")
                        \cup { Poll("updateSignalsTable", "", "updateAll"),
                               Poll("updateSystemStatus", "", "updateAll") })
    /\ timers = EmptyBag
    /\ tbody = Untouched
    /\ panels = [id \in PanelIds |-> "untouched"]
    /\ toasts = NoToast
    /\ lastOp = Op("init", "call", "done")
    /\ edits = 0
    /\ nextId = 5
    /\ SettingsIdle
    /\ ActionsIdle
    /\ SignalsIdle

\* what the remote answers each updater's fetch with, or the fetch failing
PollResponses(req) ==
    (IF req.op \in {"updateIndicators", "updateAnalysis"}
     THEN {HttpOk([technical_indicators |-> "some", signal_analysis |-> "some"]),
           HttpOk([technical_indicators |-> "none", signal_analysis |-> "none"])}
     ELSE IF req.op = "updateSignalsTable"
     THEN {HttpOk([success |-> TRUE, active_signals |-> feed]) : feed \in SignalFeeds}
          \cup {HttpOk([success |-> FALSE, error |-> "unavailable"])}
     ELSE IF req.op = "updateSystemStatus"
     THEN {HttpOk([is_running |-> TRUE])}
     ELSE IF req.op = "updateSystemStatusMulti"
     THEN {HttpOk([overall_status |-> "HEALTHY"])}
     ELSE IF req.op \in SignalActions
     THEN {HttpOk([success |-> TRUE]), HttpOk([success |-> FALSE, error |-> "unavailable"])}
     ELSE IF req.op \in SystemControls
     THEN {HttpOk([message |-> "done"])}
     ELSE {HttpOk([current_price |-> "price"])})
    \cup {HttpError, NetworkError}

NextDashboard ==
    \/ updateAll("interval")
    \/ updateAll("forceUpdate")
    \/ \E crypto \in Cryptos : switchCrypto(crypto)
    \/ \E op \in SignalActions : SignalAction(op)
    \/ \E op \in SystemControls, action \in ControlActions : SystemControl(op, action)
    \/ \E callback \in BagToSet(timers) : TimerFires(callback)
    \/ \E req \in BagToSet(polls) : \E resp \in PollResponses(req) :
          updatePriceSettled(req, resp)
    \/ \E req \in BagToSet(polls) : \E resp \in PollResponses(req) :
          updateIndicatorsSettled(req, resp)
    \/ \E req \in BagToSet(polls) : \E resp \in PollResponses(req) :
          updateAnalysisSettled(req, resp)
    \/ \E req \in BagToSet(polls) : \E resp \in PollResponses(req) :
          updateSignalsTableSettled(req, resp)
    \/ \E req \in BagToSet(polls) : \E resp \in PollResponses(req) :
          updateSystemStatusBitcoinSettled(req, resp)
    \/ \E req \in BagToSet(polls) : \E resp \in PollResponses(req) :
          updateSystemStatusMultiSettled(req, resp)
    \/ \E req \in BagToSet(polls) : \E resp \in PollResponses(req) :
          SignalActionSettled(req, resp)
    \/ \E req \in BagToSet(polls) : \E resp \in PollResponses(req) :
          SystemControlSettled(req, resp)

SpecDashboard == InitDashboard /\ [][NextDashboard]_vars

\* the entity class a fetch polls: the signals, or the price, the indicators
\* or the analysis of a crypto, or the system status
EntityClass(req) ==
    IF req.op = "updateSystemStatusMulti" THEN <<"updateSystemStatus", "">>
    ELSE <<req.op, req.crypto>>

PollsOf(class) ==
    {req \in BagToSet(polls) : EntityClass(req) = class}

RECURSIVE CopiesOf(_)
CopiesOf(reqs) ==
    IF reqs = {} THEN 0
    ELSE LET req == CHOOSE q \in reqs : TRUE
         IN  CopiesIn(req, polls) + CopiesOf(reqs \ {req})

\* C11: at most one poll of an entity class is in flight at any time: the
\* in-flight fetches of the signals table (and of each crypto's price,
\* indicators and analysis, and of the system status) number at most one.
C11_AtMostOnePollPerClass ==
    \A req \in BagToSet(polls) :
        req.op \notin SignalActions => CopiesOf(PollsOf(EntityClass(req))) <= 1

---------------------------------------------------------------------------
(***************************************************************************)
(* displaySignalsTable on its own: the caller's array (signals), the table *)
(* body it renders into (tbody) and the calls made so far (renders), for   *)
(* the variant of static/js/dashboard.js and for the modular dashboard's.  *)
(***************************************************************************)

MaxRenders == 2
MaxSignals == 25

Orders == {"ascending", "descending", "scrambled", "ties"}

Lengths == {0, 1, 2, 3, 19, 20, 21, MaxSignals}

\* created_at (as milliseconds) of the i-th of n signals, by the order the
\* signals arrive in
CreatedAt(order, i, n) ==
    IF order = "ascending" THEN 1000 + 10 * i
    ELSE IF order = "descending" THEN 1000 + 10 * (n - i)
    ELSE IF order = "scrambled" THEN 1000 + 10 * ((7 * i) % 27)
    ELSE 1000 + 10 * (i % 3)

\* n signals of distinct ids
DistinctSignals(order, n) ==
    [i \in 1..n |->
        [id |-> i, created_at |-> CreatedAt(order, i, n), current_pnl |-> 0]]

\* lists in which an id arrives more than once, a later arrival carrying
\* other fields
DuplicateSignals ==
    { <<[id |-> 1, created_at |-> 1010, current_pnl |-> 0],
        [id |-> 2, created_at |-> 1020, current_pnl |-> 0],
        [id |-> 1, created_at |-> 1010, current_pnl |-> 5]>>,
      <<[id |-> 1, created_at |-> 1010, current_pnl |-> 0],
        [id |-> 2, created_at |-> 1020, current_pnl |-> 0],
        [id |-> 1, created_at |-> 1030, current_pnl |-> 5]>>,
      <<[id |-> 2, created_at |-> 1020, current_pnl |-> 0],
        [id |-> 2, created_at |-> 1020, current_pnl |-> 0]>>,
      <<[id |-> 1, created_at |-> 1030, current_pnl |-> 5],
        [id |-> 1, created_at |-> 1010, current_pnl |-> 0],
        [id |-> 3, created_at |-> 1020, current_pnl |-> 0],
        [id |-> 1, created_at |-> 1040, current_pnl |-> 7]>> }

SignalLists ==
    {DistinctSignals(order, n) : order \in Orders, n \in Lengths}
    \cup DuplicateSignals

\* what the table body may hold before the call
PriorTables ==
    { Untouched, EmptyTable, ErrorTable,
      Table(<<[id |-> 9, created |-> 900, pnl |-> 1]>>) }

\* one call of displaySignalsTable: the variant, the array as it was handed
\* over and the table body the call left
Render(variant, incoming, shown) ==
    [variant |-> variant, incoming |-> incoming, tbody |-> shown]

\* state no displaySignalsTable writes
NotSignals ==
    <<currentConfig, form, unsavedChanges, inflight, nextId, remote, toasts,
      edits, exported, statusDisplay, reading, dragging, candidate, validation, appliedLoad,
      original, ActionVars, isUpdating, currentCrypto, polls, timers, panels,
      Intervals, DuplicateAlert>>

\* this.displaySignalsTable(signals), static/js/dashboard.js
RenderStatic ==
    /\ Len(renders) < MaxRenders
    /\ tbody' = displaySignalsTable(signals)
    /\ renders' = Append(renders, Render("static", signals, tbody'))
    /\ lastOp' = Op("displaySignalsTable", "call", "done")
    /\ UNCHANGED <<signals, NotSignals>>

\* this.displaySignalsTable(signals), the modular dashboard
RenderModular ==
    /\ Len(renders) < MaxRenders
    /\ tbody' = displaySignalsTableModular(signals).tbody
    /\ signals' = displaySignalsTableModular(signals).signals
    /\ renders' = Append(renders, Render("modular", signals, tbody'))
    /\ lastOp' = Op("displaySignalsTable", "call", "done")
    /\ UNCHANGED NotSignals

InitSignals ==
    /\ signals \in SignalLists
    /\ tbody \in PriorTables
    /\ renders = <<>>
    /\ isUpdating = FALSE
    /\ currentCrypto = "BTC"
    /\ polls = EmptyBag
    /\ timers = EmptyBag
    /\ panels = [id \in PanelIds |-> "untouched"]
    /\ updateInterval = NoTimer
    /\ monitorCheckInterval = NoTimer
    /\ intervals = {}
    /\ duplicateAlertShown = FALSE
    /\ duplicateWarnings = 0
    /\ toasts = NoToast
    /\ lastOp = Op("init", "call", "done")
    /\ edits = 0
    /\ nextId = 0
    /\ SettingsIdle
    /\ ActionsIdle

NextSignals ==
    \/ RenderStatic
    \/ RenderModular

SpecSignals == InitSignals /\ [][NextSignals]_vars

\* the ids of a list of signals or of rows
Ids(list) == {list[i].id : i \in 1..Len(list)}

DistinctIds(list) ==
    \A i, j \in 1..Len(list) : list[i].id = list[j].id => i = j

\* the calls of displaySignalsTable made so far
Renders == {renders[i] : i \in 1..Len(renders)}

Min(a, b) == IF a < b THEN a ELSE b

\* C12: for every incoming signal list, the rendered table has exactly one
\* row per distinct id (every id when they fit the display window, never an
\* id twice), and the row of an id shows the fields of the first signal of
\* that id in incoming order.
C12_OneRowPerIdFirstOccurrence ==
    \A r \in Renders :
        LET rows == r.tbody.rows
        IN  /\ DistinctIds(rows)
            /\ Ids(rows) \subseteq Ids(r.incoming)
            /\ Cardinality(Ids(r.incoming)) <= DisplayWindow
                   => Ids(rows) = Ids(r.incoming)
            /\ \A i \in 1..Len(rows) :
                   rows[i] = Row(r.incoming[findIndex(r.incoming, rows[i].id)])

\* C13: for every incoming list of n signals with distinct ids, the
\* rendered table has exactly min(n, 20) rows, each the row of an incoming
\* signal, ordered by creation time descending, and no signal left out was
\* created after a signal that is shown.
C13_MostRecentTwenty ==
    \A r \in Renders :
        DistinctIds(r.incoming) =>
            LET rows == r.tbody.rows
                n == Len(r.incoming)
            IN  /\ Len(rows) = Min(n, 20)
                /\ DistinctIds(rows)
                /\ \A i \in 1..Len(rows) :
                       \E k \in 1..n : rows[i] = Row(r.incoming[k])
                /\ \A i \in 1..(Len(rows) - 1) :
                       rows[i].created >= rows[i + 1].created
                /\ \A k \in 1..n :
                       r.incoming[k].id \notin Ids(rows)
                           => \A i \in 1..Len(rows) :
                                  r.incoming[k].created_at <= rows[i].created

\* 25 signals of distinct ids arrived out of order and 20 rows are shown
C13_Witness ==
    \E r \in Renders :
        /\ r.variant = "static"
        /\ Len(r.incoming) = MaxSignals
        /\ DistinctIds(r.incoming)
        /\ \E k \in 1..(MaxSignals - 1) :
               r.incoming[k].created_at < r.incoming[k + 1].created_at
        /\ \E k \in 1..(MaxSignals - 1) :
               r.incoming[k].created_at > r.incoming[k + 1].created_at
        /\ Len(r.tbody.rows) = 20

\* the rows are ordered by creation time, descending
SortedDescending(rows) ==
    \A i \in 1..(Len(rows) - 1) : rows[i].created >= rows[i + 1].created

\* C14: displaySignalsTable called twice with the same list leaves the same
\* row sequence in the table body both times, whatever the table body held
\* before the first call, and that sequence is deduplicated (no id twice)
\* and sorted by creation time, descending.
C14_Idempotent ==
    \A i \in 1..(Len(renders) - 1) :
        renders[i].variant = renders[i + 1].variant
            => /\ renders[i + 1].tbody = renders[i].tbody
               /\ DistinctIds(renders[i].tbody.rows)
               /\ SortedDescending(renders[i].tbody.rows)

\* the fetch of a poll failed: it was rejected, answered with an HTTP error
\* status, or (the signals) answered with success: false
PollFailed(resp) ==
    \/ resp.state # "ok"
    \/ "success" \in DOMAIN resp.data /\ ~resp.data.success

\* C15: a failed poll never clears a successful prior render: when the
\* signals fetch fails while the table shows rows, the table still shows
\* those rows after the failure, and when an indicators or analysis fetch
\* fails while the panel shows data, the panel still shows it.
C15_FailedPollKeepsRender ==
    [][\A req \in BagToSet(polls) : \A resp \in PollResponses(req) :
          PollFailed(resp) =>
              /\ (updateSignalsTableSettled(req, resp) /\ tbody.kind = "rows")
                     => tbody' = tbody
              /\ (/\ updateIndicatorsSettled(req, resp)
                  /\ panels[<<req.crypto, "indicators">>] = "indicators")
                     => panels'[<<req.crypto, "indicators">>] = "indicators"
              /\ (/\ updateAnalysisSettled(req, resp)
                  /\ panels[<<req.crypto, "analysis">>] = "analysis")
                     => panels'[<<req.crypto, "analysis">>] = "analysis"]_vars

---------------------------------------------------------------------------
(***************************************************************************)
(* SettingsManager: the system tab.  The system status poll over every     *)
(* health value, and the system action buttons with their confirmation     *)
(* dialog.  confirmCallback holds the action whose callback                *)
(* showConfirmDialog stored; confirmed is the set of actions whose dialog  *)
(* the user confirmed (history, not a field of the program).               *)
(***************************************************************************)

SystemActionsUrl == "/settings/api/system-actions"

\* the buttons wired to executeSystemAction, with their confirm messages
ActionButtons ==
    { <<"reset_signals", "Resetar todos os sinais?">>,
      <<"restart_analyzers", "Reiniciar analyzers?">>,
      <<"force_save", "Forcar salvamento de estado?">>,
      <<"backup_database", "Fazer backup dos bancos de dados?">> }

\* showConfirmDialog(message, onConfirm); onConfirm is named by the action
\* it is for
showConfirmDialog(message, detail, onConfirm) ==
    /\ modal' = [shown |-> TRUE, message |-> message, detail |-> detail]
    /\ confirmCallback' = onConfirm

\* performSystemAction(action, params), to its fetch
performSystemAction(action, params) ==
    Send(SystemActionsUrl, Spread([action |-> action], params),
         "performSystemAction", "user")

\* state the system action buttons never write
NotActions ==
    <<currentConfig, form, unsavedChanges, remote, edits, exported,
      statusDisplay, reading, dragging, candidate, validation, appliedLoad, original,
      DashboardVars, SignalsVars>>

\* an executeSystemAction that sends the request without asking
executeSystemActionUnconfirmed(action, confirmMessage) ==
    /\ performSystemAction(action, EmptyObject)
    /\ lastOp' = Op("executeSystemAction", "call", "sent")
    /\ toasts' = NoToast
    /\ UNCHANGED <<pendingAction, confirmCallback, modal, confirmed, NotActions>>

\* executeSystemAction(action, confirmMessage = null): with a message the
\* dialog opens (over a dialog already shown too), without one the request
\* is sent at once.  Every button passes a message.
executeSystemAction(action, confirmMessage) ==
    /\ IF confirmMessage # Null
       THEN /\ showConfirmDialog(confirmMessage, <<>>, action)
            /\ lastOp' = Op("executeSystemAction", "call", "done")
            /\ UNCHANGED <<inflight, nextId>>
       ELSE /\ performSystemAction(action, EmptyObject)
            /\ lastOp' = Op("executeSystemAction", "call", "sent")
            /\ UNCHANGED <<confirmCallback, modal>>
    /\ toasts' = NoToast
    /\ UNCHANGED <<pendingAction, confirmed, NotActions>>

\* cleanupData()
cleanupData ==
    /\ LET days == parseInt(getSliderValue(form, "cleanup-days"))
       IN  showConfirmDialog("Remover dados anteriores a  dias?", <<days>>,
                             "cleanup_data")
    /\ lastOp' = Op("cleanupData", "call", "done")
    /\ toasts' = NoToast
    /\ UNCHANGED <<pendingAction, confirmed, inflight, nextId, NotActions>>

\* executeConfirmedAction(): the click on the dialog's confirm button
executeConfirmedAction ==
    /\ modal.shown
    /\ IF pendingAction # Null
       THEN /\ performSystemAction(pendingAction, EmptyObject)
            /\ pendingAction' = Null
            /\ lastOp' = Op("executeConfirmedAction", "call", "sent")
       ELSE /\ lastOp' = Op("executeConfirmedAction", "call", "done")
            /\ UNCHANGED <<pendingAction, inflight, nextId>>
    /\ modal' = [modal EXCEPT !.shown = FALSE]
    /\ confirmed' = confirmed \cup {confirmCallback}
    /\ toasts' = NoToast
    /\ UNCHANGED <<confirmCallback, NotActions>>

\* the dialog's cancel button (data-bs-dismiss)
DismissDialog ==
    /\ modal.shown
    /\ modal' = [modal EXCEPT !.shown = FALSE]
    /\ lastOp' = Op("dismiss", "call", "done")
    /\ toasts' = NoToast
    /\ UNCHANGED <<pendingAction, confirmCallback, confirmed, inflight, nextId,
                   NotActions>>

\* performSystemAction after its fetch; no request for it to settle is sent
\* by the buttons as they are wired
performSystemActionSettled(r, resp) ==
    /\ r.op = "performSystemAction"
    /\ inflight' = inflight \ {r}
    /\ toasts' = IF resp.state = "failed"
                 THEN Toast("error", "Erro ao executar ", <<r.body.action>>)
                 ELSE IF Succeeded(resp)
                 THEN Toast("success", "message", <<>>)
                 ELSE Toast("error", "message", <<>>)
    /\ lastOp' = Op("performSystemAction", "response", Outcome(resp))
    /\ UNCHANGED <<pendingAction, confirmCallback, modal, confirmed, nextId,
                   NotActions>>

\* the health values /settings/api/system-status can carry
AllHealthValues == {"HEALTHY", "DEGRADED", "PARTIAL", "ERROR", "STARTING"}

\* what the system-status fetch can settle with
StatusResponses ==
    {Answer([status |-> "success", system_status |-> [health |-> health]]) :
        health \in AllHealthValues}
    \cup {Answer([status |-> "success", system_status |-> [uptime |-> "1h"]]),
          Answer([status |-> "success"]),
          Rejected, Failed}

InitActions ==
    /\ nextId = 0
    /\ toasts = NoToast
    /\ lastOp = Op("init", "call", "done")
    /\ edits = 0
    /\ SettingsIdle
    /\ ActionsIdle
    /\ DashboardIdle
    /\ SignalsIdle

NextActions ==
    \/ updateSystemStatus
    \/ \E r \in inflight, resp \in StatusResponses : updateSystemStatusSettled(r, resp)
    \/ \E button \in ActionButtons : executeSystemAction(button[1], button[2])
    \/ cleanupData
    \/ executeConfirmedAction
    \/ DismissDialog

SpecActions == InitActions /\ [][NextActions]_vars

---------------------------------------------------------------------------
(***************************************************************************)
(* The whole settings page after init: the first load was applied and the  *)
(* first status poll failed.  The form, the import, the export, the status *)
(* poll and the system tab run interleaved; this is where every write to   *)
(* unsavedChanges is in reach of one behaviour.                            *)
(***************************************************************************)

MaxDirtyEdits == 1     \* moves of a slider in a run of this page

\* the system action button the user clicks here; the file the user picks
\* is one that parses (the file that does not is SpecImport's)
DirtyButton == <<"reset_signals", "Resetar todos os sinais?">>

InitDirty ==
    /\ remote \in InitialRemotes
    /\ currentConfig = remote
    /\ form = populateForm(InitialForm, remote)
    /\ unsavedChanges = FALSE
    /\ inflight = {}
    /\ nextId = 2
    /\ toasts = NoToast
    /\ lastOp = Op("updateSystemStatus", "response", "failed")
    /\ edits = 0
    /\ exported = NoArtifact
    /\ statusDisplay = [class |-> "", text |-> ""]
    /\ reading = {}
    /\ dragging = NoDrag
    /\ candidate = EmptyObject
    /\ validation = NotValidated
    /\ appliedLoad = 0
    /\ original = EmptyObject
    /\ ActionsIdle
    /\ DashboardIdle
    /\ SignalsIdle

NextDirty ==
    \/ \E e \in SliderEdits : edits < MaxDirtyEdits /\ EditSlider(e[1], e[2])
    \/ \E e \in SliderEdits : SliderChange(e[1])
    \/ saveSettings
    \/ \E answer \in BOOLEAN : resetForm(answer)
    \/ \E answer \in BOOLEAN : resetToDefaults(answer)
    \/ exportConfig
    \/ updateSystemStatus
    \/ \E file \in {ConfigFile(DefaultConfig)} : configFileInputChange(file)
    \/ \E file \in reading : handleFileImportRead(file)
    \/ executeSystemAction(DirtyButton[1], DirtyButton[2])
    \/ cleanupData
    \/ executeConfirmedAction
    \/ \E r \in inflight : \E resp \in Responses(r) : loadCurrentConfigSettled(r, resp)
    \/ \E r \in inflight : \E resp \in Responses(r) : saveSettingsSettled(r, resp)
    \/ \E r \in inflight : \E resp \in Responses(r) : resetToDefaultsSettled(r, resp)
    \/ \E r \in inflight : \E resp \in Responses(r) : exportConfigSettled(r, resp)
    \/ \E r \in inflight : \E resp \in Responses(r) : handleFileImportSettled(r, resp)
    \/ \E r \in inflight : \E resp \in Responses(r) : updateSystemStatusSettled(r, resp)
    \/ \E r \in inflight : RemoteAccepts(r, "HEALTHY")

SpecDirty == InitDirty /\ [][NextDirty]_vars

\* the health value a system-status answer carries
HealthOf(resp) ==
    IF Has(resp.data, "system_status") /\ Has(resp.data.system_status, "health")
    THEN resp.data.system_status.health
    ELSE "missing"

\* the display state the health value stands for
HealthClass(health) ==
    IF health = "HEALTHY" THEN "status-active"
    ELSE IF health = "ERROR" THEN "status-inactive"
    ELSE "status-warning"

\* C16: displaySystemStatus maps the remote health value to a three-state
\* display for every input: HEALTHY to healthy, DEGRADED and PARTIAL to
\* warning, ERROR to error, every other or missing value to warning; after
\* every successful status answer the indicator shows the state of the
\* answer's health value.
C16_HealthToThreeStates ==
    [][\A r \in inflight : \A resp \in StatusResponses :
          (Succeeded(resp) /\ updateSystemStatusSettled(r, resp))
              => statusDisplay'.class = HealthClass(HealthOf(resp))]_vars

\* C18: no system-actions request for an action is in flight unless the
\* user pressed the confirm button of the dialog opened for that action.
C18_NoRequestBeforeConfirm ==
    \A r \in inflight :
        r.url = SystemActionsUrl => r.body.action \in confirmed

\* the user pressed the confirm button of the dialogs opened for
\* reset_signals and for cleanup_data
C18_Witness ==
    /\ {"reset_signals", "cleanup_data"} \subseteq confirmed
    /\ lastOp.op = "executeConfirmedAction"
    /\ ~modal.shown

\* C17: when two configuration loads are in flight and their responses
\* arrive out of order, the response of the earlier-issued load is discarded
\* once a later-issued load has been applied: it changes neither
\* currentConfig nor the form.
C17_StaleLoadDiscarded ==
    [][\A r \in inflight : \A resp \in Responses(r) :
          (/\ loadCurrentConfigSettled(r, resp)
           /\ Succeeded(resp)
           /\ r.id < appliedLoad)
              => (currentConfig' = currentConfig /\ form' = form)]_vars

---------------------------------------------------------------------------
(***************************************************************************)
(* Export and import on a loaded page: currentConfig is what the remote    *)
(* stores, original remembers it (history, not a field of the program),    *)
(* and the only file the user imports is the artifact of an export.        *)
(***************************************************************************)

\* configurations the remote may hold when the page was loaded
LoadedConfigs ==
    { DefaultConfig, CustomConfig,
      [DefaultConfig EXCEPT
          !.trading.ta_params.min_volume_ratio = parseFloat(133),
          !.trading.signal_config.target_multipliers[2] = parseFloat(275),
          !.trading.indicator_weights.rsi = parseFloat(7),
          !.trading.indicator_weights.macd = parseFloat(33)] }

\* the file input's choices: a file that does not parse, and the download
\* of the last export as it was written
ArtifactFiles ==
    {BrokenFile}
    \cup (IF exported.parsable THEN {ConfigFile(JSONparse(exported.json))} ELSE {})

InitRoundTrip ==
    /\ remote \in LoadedConfigs
    /\ currentConfig = remote
    /\ original = remote
    /\ form = populateForm(InitialForm, remote)
    /\ unsavedChanges = FALSE
    /\ inflight = {}
    /\ nextId = 0
    /\ toasts = NoToast
    /\ lastOp = Op("loadCurrentConfig", "response", "success")
    /\ edits = 0
    /\ exported = NoArtifact
    /\ statusDisplay = [class |-> "", text |-> ""]
    /\ reading = {}
    /\ dragging = NoDrag
    /\ candidate = EmptyObject
    /\ validation = NotValidated
    /\ appliedLoad = NoLoad
    /\ ActionsIdle
    /\ DashboardIdle
    /\ SignalsIdle

NextRoundTrip ==
    \/ \E e \in SliderEdits : EditSlider(e[1], e[2])
    \/ \E e \in SliderEdits : SliderChange(e[1])
    \/ exportConfig
    \/ \E file \in ArtifactFiles : configFileInputChange(file)
    \/ \E file \in reading : handleFileImportRead(file)
    \/ \E r \in inflight : \E resp \in Responses(r) : exportConfigSettled(r, resp)
    \/ \E r \in inflight : \E resp \in Responses(r) : handleFileImportSettled(r, resp)
    \/ \E r \in inflight : \E resp \in Responses(r) : loadCurrentConfigSettled(r, resp)
    \/ \E r \in inflight : RemoteAccepts(r, "HEALTHY")

SpecRoundTrip == InitRoundTrip /\ [][NextRoundTrip]_vars

\* C19: round trip: on a loaded page, when the reload that follows the
\* import of an export's unmodified artifact is applied, currentConfig
\* equals the configuration the page had loaded, field for field.
C19_RoundTrip ==
    [][\A r \in inflight : \A resp \in Responses(r) :
          (/\ loadCurrentConfigSettled(r, resp)
           /\ Succeeded(resp)
           /\ r.caller = "handleFileImport")
              => currentConfig' = original]_vars

\* the reload after the import of the artifact was applied, for a
\* configuration whose numbers are not whole, on a form the user had edited
C19_Witness ==
    /\ lastOp = Op("loadCurrentConfig", "response", "success")
    /\ appliedLoad # NoLoad
    /\ exported.parsable
    /\ original \notin {DefaultConfig, CustomConfig}
    /\ currentConfig = original
    /\ edits > 0

\* how often a message is in an error list
Occurrences(errors, message) ==
    Cardinality({i \in 1..Len(errors) : errors[i] = message})

\* the place of a message's rule in the order RSI, SMA, EMA, weight sum
RuleIndex(message) ==
    IF message = RsiError THEN 1
    ELSE IF message = SmaError THEN 2
    ELSE IF message = EmaError THEN 3
    ELSE 4

Count(violated) == IF violated THEN 1 ELSE 0

\* C20: validateConfig collects all violations: the error list holds
\* exactly one message for each violated rule among RSI oversold <
\* overbought, SMA short < long, EMA short < long and the weight sum (as
\* the code sums the weights), in that order and nothing else, and valid is
\* true iff the list is empty.
C20_AllViolationsCollected ==
    validation # NotValidated =>
        LET ta == candidate.trading.ta_params
            errors == validation.errors
            weightViolated ==
                DoubleGreater(AbsMinusOne(TotalWeight(candidate.trading.indicator_weights)),
                              Tolerance)
        IN  /\ Occurrences(errors, RsiError) = Count(ta.rsi_oversold >= ta.rsi_overbought)
            /\ Occurrences(errors, SmaError) = Count(ta.sma_short >= ta.sma_long)
            /\ Occurrences(errors, EmaError) = Count(ta.ema_short >= ta.ema_long)
            /\ Len(WeightErrors(errors)) = Count(weightViolated)
            /\ Len(errors) = Count(ta.rsi_oversold >= ta.rsi_overbought)
                             + Count(ta.sma_short >= ta.sma_long)
                             + Count(ta.ema_short >= ta.ema_long)
                             + Count(weightViolated)
            /\ \A i, j \in 1..Len(errors) :
                   i < j => RuleIndex(errors[i]) < RuleIndex(errors[j])
            /\ validation.valid <=> errors = <<>>

\* validateConfig was applied to a candidate that violates all four rules
C20_Witness ==
    /\ validation # NotValidated
    /\ Len(validation.errors) = 4
    /\ ~validation.valid
    /\ candidate.trading.ta_params.sma_short >= candidate.trading.ta_params.sma_long
    /\ candidate.trading.ta_params.ema_short >= candidate.trading.ta_params.ema_long

\* C21: for the paired periods sma_short / sma_long and ema_short /
\* ema_long, validateConfig reports the pair's error if and only if short >=
\* long; equal values are rejected.
C21_ShortBelowLong ==
    validation # NotValidated =>
        LET ta == candidate.trading.ta_params
        IN  /\ (SmaError \in Range(validation.errors)) <=> (ta.sma_short >= ta.sma_long)
            /\ (EmaError \in Range(validation.errors)) <=> (ta.ema_short >= ta.ema_long)
            /\ (ta.sma_short >= ta.sma_long \/ ta.ema_short >= ta.ema_long)
                   => ~validation.valid

\* validateConfig rejected a candidate whose SMA periods are equal and whose
\* EMA periods are in order
C21_Witness ==
    /\ validation # NotValidated
    /\ candidate.trading.ta_params.sma_short = candidate.trading.ta_params.sma_long
    /\ candidate.trading.ta_params.ema_short < candidate.trading.ta_params.ema_long
    /\ validation.errors = <<SmaError>>

\* the system tab with its steps taken as long as one is possible: a click
\* or a timer tick is always possible, so no behaviour ends
SpecActionsFair == SpecActions /\ WF_vars(NextActions)

\* the actions the system buttons ask for
SystemActionNames ==
    {button[1] : button \in ActionButtons} \cup {"cleanup_data"}

\* C22: after the user confirms a system action in the confirmation dialog,
\* a POST system-actions request carrying that action is eventually issued.
C22_ConfirmedActionIssued ==
    \A action \in SystemActionNames :
        (action \in confirmed)
            ~> (\E r \in inflight : r.url = SystemActionsUrl /\ r.body.action = action)

\* the requests sent in a step
Sent(before, after) == {q \in after : \A r \in before : r.id # q.id}

\* C23: when the response to a confirmed resetToDefaults is a success, the
\* step sends one get-config request (the reload) and nothing else changes
\* yet; when that reload succeeds, currentConfig is the reloaded
\* configuration, the form shows it and unsavedChanges is false; when the
\* reset fails or is rejected, an error is shown, no request is sent and
\* currentConfig, the form and unsavedChanges are as they were.
C23_ResetReloadsOnSuccessOnly ==
    [][\A r \in inflight : \A resp \in Responses(r) :
          /\ resetToDefaultsSettled(r, resp) =>
                /\ currentConfig' = currentConfig
                /\ form' = form
                /\ unsavedChanges' = unsavedChanges
                /\ IF Succeeded(resp)
                   THEN /\ Cardinality(Sent(inflight, inflight')) = 1
                        /\ \A q \in Sent(inflight, inflight') :
                               q.url = GetConfig /\ q.caller = "resetToDefaults"
                   ELSE /\ Sent(inflight, inflight') = {}
                        /\ nextId' = nextId
                        /\ ShowsError(toasts')
          /\ (/\ loadCurrentConfigSettled(r, resp)
              /\ r.caller = "resetToDefaults"
              /\ Succeeded(resp))
                => /\ currentConfig' = resp.data.config
                   /\ FormShows(form', resp.data.config)
                   /\ ~unsavedChanges']_vars

\* the reload after a successful reset was applied over a form the user had
\* edited: the page shows the defaults and is not dirty
C23_Witness ==
    /\ lastOp = Op("loadCurrentConfig", "response", "success")
    /\ remote = DefaultConfig
    /\ currentConfig = DefaultConfig
    /\ FormShows(form, DefaultConfig)
    /\ edits > 0
    /\ ~unsavedChanges

\* C24: the import of a parsable file sends exactly one import-config
\* request, carrying the file's content; when the response is a success the
\* step sends one get-config request (the reload), and when the remote
\* rejects or the request fails an error is shown and no request is sent;
\* in each of these steps, the change event that picks the file included,
\* currentConfig, the form and unsavedChanges are as they were.
C24_ImportReloadsOnSuccessOnly ==
    [][/\ \A file \in Files :
            (file.parsable /\ configFileInputChange(file)) =>
                /\ inflight' = inflight
                /\ currentConfig' = currentConfig
                /\ form' = form
                /\ unsavedChanges' = unsavedChanges
       /\ \A file \in reading :
            (file.parsable /\ handleFileImportRead(file)) =>
                /\ Cardinality(Sent(inflight, inflight')) = 1
                /\ \A q \in Sent(inflight, inflight') :
                       q.url = ImportConfigUrl /\ q.body.config_data = file.json
                /\ currentConfig' = currentConfig
                /\ form' = form
                /\ unsavedChanges' = unsavedChanges
       /\ \A r \in inflight : \A resp \in Responses(r) :
            handleFileImportSettled(r, resp) =>
                /\ currentConfig' = currentConfig
                /\ form' = form
                /\ unsavedChanges' = unsavedChanges
                /\ IF Succeeded(resp)
                   THEN /\ Cardinality(Sent(inflight, inflight')) = 1
                        /\ \A q \in Sent(inflight, inflight') :
                               q.url = GetConfig /\ q.caller = "handleFileImport"
                   ELSE /\ Sent(inflight, inflight') = {}
                        /\ nextId' = nextId
                        /\ ShowsError(toasts')]_vars

\* C25: a field edit (a slider moved, the slider released, or a checkbox
\* toggled) sets unsavedChanges, writes the input exactly as the user set it
\* (the release writes nothing), sends no
\* request, records no validation, shows no message and leaves
\* currentConfig as it was, whether or not the working values are valid
\* after it.
C25_EditOnlyMarksDirty ==
    [][/\ \A e \in SliderEdits :
            EditSlider(e[1], e[2]) =>
                /\ form' = [form EXCEPT ![e[1]] = e[2]]
                /\ unsavedChanges'
                /\ inflight' = inflight /\ nextId' = nextId
                /\ validation' = validation /\ toasts' = NoToast
                /\ currentConfig' = currentConfig /\ remote' = remote
       /\ \A e \in SliderEdits :
            SliderChange(e[1]) =>
                /\ form' = form
                /\ unsavedChanges'
                /\ inflight' = inflight /\ nextId' = nextId
                /\ validation' = validation /\ toasts' = NoToast
                /\ currentConfig' = currentConfig /\ remote' = remote
       /\ \A input \in CheckboxEdits :
            EditCheckbox(input) =>
                /\ form' = [form EXCEPT ![input] = ~form[input]]
                /\ unsavedChanges'
                /\ inflight' = inflight /\ nextId' = nextId
                /\ validation' = validation /\ toasts' = NoToast
                /\ currentConfig' = currentConfig /\ remote' = remote]_vars

\* an edit has just put oversold above overbought on a loaded page: the
\* working values fail validateConfig, the snapshot is the loaded one
C25_Witness ==
    /\ lastOp = Op("edit", "call", "done")
    /\ unsavedChanges
    /\ currentConfig # EmptyObject
    /\ LET working == collectFormData(form)
       IN  /\ working.trading.ta_params.rsi_oversold
                 > working.trading.ta_params.rsi_overbought
           /\ ~validateConfig(working).valid
    /\ validateConfig(currentConfig).valid

\* C26: in every reachable state of a page that holds a configuration,
\* when unsavedChanges is false the working values of the form
\* (collectFormData) equal currentConfig in every section the form covers,
\* also when the user edits a field while a save or a load is in flight and
\* the response arrives after the edit.
C26_CleanFormEqualsSnapshot ==
    (~unsavedChanges /\ currentConfig # EmptyObject)
        => FormShows(form, currentConfig)

---------------------------------------------------------------------------
(***************************************************************************)
(* TradingDashboard (static/js/dashboard.js): the two intervals of         *)
(* startUpdates, stopUpdates, and the system status over every answer of   *)
(* the two status endpoints.  The user does not click.                     *)
(***************************************************************************)

\* the 10 s interval fires: updateAll()
updateIntervalFires ==
    /\ UpdateTimer \in intervals
    /\ updateAll("interval")

\* the 30 s interval fires: checkSystemHealth(), to its fetch
checkSystemHealth ==
    /\ MonitorTimer \in intervals
    /\ Fetch({Poll("checkSystemHealth", "", "interval")})
    /\ lastOp' = DashboardStep
    /\ toasts' = NoToast
    /\ UNCHANGED <<isUpdating, currentCrypto, timers, tbody, panels, edits,
                   DuplicateAlert, NotDashboard>>

\* checkSystemHealth(), after its fetch: it writes to the console alone
checkSystemHealthSettled(req, resp) ==
    /\ req.op = "checkSystemHealth"
    /\ Settle(req, {})
    /\ FinallyUpdateAll(req)
    /\ lastOp' = DashboardStep
    /\ toasts' = NoToast
    /\ UNCHANGED <<currentCrypto, timers, tbody, panels, edits, DuplicateAlert,
                   NotDashboard>>

\* a stopUpdates that drops the handles and does not clear the intervals
stopUpdatesForgetting ==
    /\ updateInterval' = NoTimer
    /\ monitorCheckInterval' = NoTimer
    /\ UNCHANGED intervals
    /\ lastOp' = DashboardStep
    /\ toasts' = NoToast
    /\ UNCHANGED <<currentConfig, form, unsavedChanges, inflight, nextId, remote,
                   edits, exported, statusDisplay, reading, dragging, candidate, validation,
                   appliedLoad, original, ActionVars, SignalsVars, isUpdating,
                   currentCrypto, polls, timers, tbody, panels, DuplicateAlert>>

\* stopUpdates(), called by the window's beforeunload listener
stopUpdates ==
    /\ intervals' = {t \in intervals :
                        /\ ~(updateInterval # NoTimer /\ t.id = updateInterval)
                        /\ ~(monitorCheckInterval # NoTimer
                                /\ t.id = monitorCheckInterval)}
    /\ updateInterval' = NoTimer
    /\ monitorCheckInterval' = NoTimer
    /\ lastOp' = DashboardStep
    /\ toasts' = NoToast
    /\ UNCHANGED <<currentConfig, form, unsavedChanges, inflight, nextId, remote,
                   edits, exported, statusDisplay, reading, dragging, candidate, validation,
                   appliedLoad, original, ActionVars, SignalsVars, isUpdating,
                   currentCrypto, polls, timers, tbody, panels, DuplicateAlert>>

\* what /api/multi-asset/health reports in overall_status
OverallStatuses == {"HEALTHY", "PARTIAL", "UNHEALTHY", "healthy"}

\* what the remote answers the fetches of the intervals with
StatusResponsesOf(req) ==
    IF req.op = "updateSystemStatus"
    THEN {HttpOk([is_running |-> running]) : running \in BOOLEAN}
         \cup {HttpError, NetworkError}
    ELSE IF req.op = "updateSystemStatusMulti"
    THEN {HttpOk([overall_status |-> status]) : status \in OverallStatuses}
         \cup {HttpError, NetworkError}
    ELSE IF req.op = "checkSystemHealth"
    THEN {HttpOk([status |-> "running"]), HttpError, NetworkError}
    ELSE IF req.op = "updateSignalsTable"
    THEN PollResponses(req)
    ELSE {HttpOk([current_price |-> "price", technical_indicators |-> "some",
                  signal_analysis |-> "some"]), NetworkError}

NextPolling ==
    \/ updateIntervalFires
    \/ checkSystemHealth
    \/ stopUpdates
    \/ \E req \in BagToSet(polls) : \E resp \in StatusResponsesOf(req) :
          updatePriceSettled(req, resp)
    \/ \E req \in BagToSet(polls) : \E resp \in StatusResponsesOf(req) :
          updateIndicatorsSettled(req, resp)
    \/ \E req \in BagToSet(polls) : \E resp \in StatusResponsesOf(req) :
          updateAnalysisSettled(req, resp)
    \/ \E req \in BagToSet(polls) : \E resp \in StatusResponsesOf(req) :
          updateSignalsTableSettled(req, resp)
    \/ \E req \in BagToSet(polls) : \E resp \in StatusResponsesOf(req) :
          updateSystemStatusBitcoinSettled(req, resp)
    \/ \E req \in BagToSet(polls) : \E resp \in StatusResponsesOf(req) :
          updateSystemStatusMultiSettled(req, resp)
    \/ \E req \in BagToSet(polls) : \E resp \in StatusResponsesOf(req) :
          checkSystemHealthSettled(req, resp)

SpecPolling == InitDashboard /\ [][NextPolling]_vars

\* every fetch is answered or fails in the end
SettlesAny ==
    \E req \in BagToSet(polls) : \E resp \in StatusResponsesOf(req) :
        \/ updatePriceSettled(req, resp)
        \/ updateIndicatorsSettled(req, resp)
        \/ updateAnalysisSettled(req, resp)
        \/ updateSignalsTableSettled(req, resp)
        \/ updateSystemStatusBitcoinSettled(req, resp)
        \/ updateSystemStatusMultiSettled(req, resp)
        \/ checkSystemHealthSettled(req, resp)

SpecPollingFair == SpecPolling /\ WF_vars(SettlesAny)

\* C27: when every fetch settles in the end, each updateAll that set
\* isUpdating is followed by a state where isUpdating is false again,
\* whichever of its fetches failed; the guard does not stay set.
C27_GuardReleased == isUpdating ~> ~isUpdating

\* the first updateAll has ended with every one of its fetches failed (the
\* status fetch rejected, so that no second status fetch was sent)
C27_Witness ==
    /\ ~isUpdating
    /\ polls = EmptyBag
    /\ nextId = 5
    /\ tbody = ErrorTable
    /\ panels[<<"BTC", "price">>] = "untouched"
    /\ panels[<<"bitcoin", "status">>] = "untouched"
    /\ UpdateTimer \in intervals

\* the health check's fetches in flight
HealthChecks == CopiesIn(Poll("checkSystemHealth", "", "interval"), polls)

\* C28: stopUpdates leaves updateInterval and monitorCheckInterval null and
\* no interval timer set; while both are null no step starts an updateAll
\* (isUpdating does not become true) or a checkSystemHealth, and the
\* handles stay null; a stopUpdates that finds both null changes nothing;
\* and a fetch in flight while they are null still settles and renders.
C28_StoppedStaysStopped ==
    [][/\ stopUpdates =>
            /\ updateInterval' = NoTimer
            /\ monitorCheckInterval' = NoTimer
            /\ intervals' = {}
            /\ <<polls, isUpdating, tbody, panels, nextId>>'
                   = <<polls, isUpdating, tbody, panels, nextId>>
       /\ (updateInterval = NoTimer /\ monitorCheckInterval = NoTimer) =>
            /\ isUpdating' => isUpdating
            /\ HealthChecks' <= HealthChecks
            /\ updateInterval' = NoTimer
            /\ monitorCheckInterval' = NoTimer
            /\ intervals' = {}
            /\ stopUpdates => DashboardVars' = DashboardVars
            /\ \A req \in BagToSet(polls) : \A resp \in StatusResponsesOf(req) :
                  /\ (updatePriceSettled(req, resp) /\ resp.state = "ok")
                        => panels'[<<req.crypto, "price">>] = "price"
                  /\ (updateSignalsTableSettled(req, resp)
                        /\ resp.state = "ok" /\ resp.data.success)
                        => tbody' = displaySignalsTable(resp.data.active_signals)]_vars

\* the updates were stopped and the fetches of the first updateAll, the
\* second status fetch among them, have all settled and rendered
C28_Witness ==
    /\ updateInterval = NoTimer
    /\ monitorCheckInterval = NoTimer
    /\ intervals = {}
    /\ polls = EmptyBag
    /\ ~isUpdating
    /\ nextId = 6
    /\ tbody.kind = "rows"
    /\ panels[<<"BTC", "price">>] = "price"
    /\ panels[<<"multi", "status">>] = "Online"

\* C29: the console holds at most one duplicate-signal warning; once
\* duplicateAlertShown is true it stays true and no later step warns, also
\* when a feed without duplicates and then a feed with duplicates arrive;
\* and the table a successful poll renders is displaySignalsTable of the
\* feed, whether or not the check warned.
C29_WarnsAtMostOnce ==
    [][/\ duplicateWarnings' <= 1
       /\ duplicateAlertShown' <=> (duplicateWarnings' = 1)
       /\ duplicateAlertShown =>
             (duplicateAlertShown' /\ duplicateWarnings' = duplicateWarnings)
       /\ \A req \in BagToSet(polls) : \A resp \in StatusResponsesOf(req) :
             (updateSignalsTableSettled(req, resp)
                 /\ resp.state = "ok" /\ resp.data.success)
                 => /\ tbody' = displaySignalsTable(resp.data.active_signals)
                    /\ (duplicateWarnings' = duplicateWarnings + 1)
                          <=> (~duplicateAlertShown
                                 /\ Duplicates(resp.data.active_signals) # {})]_vars

\* the check warned on the feed that holds signal 1 twice, and a later poll
\* has rendered a feed without duplicates: the flag and the one warning stay
C29_Witness ==
    /\ duplicateAlertShown
    /\ duplicateWarnings = 1
    /\ tbody = displaySignalsTable(<<>>)
    /\ panels[<<"signals", "counts">>] = updateSignalsCounts(<<>>)

\* C30: when the multi-asset fetch is answered, multi-status shows Online
\* for overall_status HEALTHY or PARTIAL and Offline for every other value;
\* a response that is not OK shows the text "not available" and a rejected
\* fetch the text "not configured"; in each case bitcoin-status is what it
\* was, and the bitcoin fetch, when answered, shows Online or Offline by
\* is_running whatever multi-status shows.
C30_MultiStatusDisplay ==
    [][\A req \in BagToSet(polls) : \A resp \in StatusResponsesOf(req) :
          /\ updateSystemStatusMultiSettled(req, resp) =>
                /\ panels'[<<"multi", "status">>] =
                      IF resp.state = "ok"
                      THEN IF resp.data.overall_status \in {"HEALTHY", "PARTIAL"}
                           THEN "Online" ELSE "Offline"
                      ELSE IF resp.state = "http" THEN "Nao disponivel"
                      ELSE "Nao configurado"
                /\ panels'[<<"bitcoin", "status">>] = panels[<<"bitcoin", "status">>]
          /\ (updateSystemStatusBitcoinSettled(req, resp) /\ resp.state = "ok") =>
                /\ panels'[<<"bitcoin", "status">>] =
                      IF resp.data.is_running THEN "Online" ELSE "Offline"
                /\ panels'[<<"multi", "status">>] = panels[<<"multi", "status">>]]_vars

\* the multi-asset fetch was rejected and multi-status shows the text
\* for it, while bitcoin-status shows Online
C30_Witness ==
    /\ panels[<<"multi", "status">>] = "Nao configurado"
    /\ panels[<<"bitcoin", "status">>] = "Online"
    /\ polls = EmptyBag

===========================================================================
